---- MODULE Spec2Model ----
(***************************************************************************)
(* A model of the query package of nu-juju-data (db/query/query.go and     *)
(* db/query/reflectcache.go): the bind-parameter scanner, the record-macro *)
(* parser and expander, the reflection cache, the statement cache and the  *)
(* Query call with its four scan plans.                                    *)
(*                                                                         *)
(* Statement text is a sequence of one-character strings.  Offsets are the *)
(* 0-based byte offsets of the Go code; At(s, i) reads byte i.             *)
(***************************************************************************)
EXTENDS Integers, Sequences, FiniteSets, TLC

(***************************************************************************)
(* Characters and strings                                                  *)
(***************************************************************************)

\* The characters of the modelled texts, in ascending byte order.
AsciiOrder ==
    << " ", "\"", "$", "'", ")", "*", ",", "-", ".", "1", "2", "4", ":", ";", "=",
       "?", "@", "A", "I", "N", "O", "P", "Q", "R", "S", "T", "W", "_",
       "a", "b", "f", "i", "n", "o", "p", "q", "r", "s", "t", "x", "z",
       "{", "}" >>

Ord(c) == CHOOSE i \in 1..Len(AsciiOrder) : AsciiOrder[i] = c

UpperLetters == {"A", "I", "N", "O", "P", "Q", "R", "S", "T", "W"}
LowerLetters == {"a", "b", "f", "i", "n", "o", "p", "q", "r", "s", "t", "x", "z"}
Digits == {"1", "2", "4"}

IsLetter(c) == c \in UpperLetters \cup LowerLetters
IsSpace(c) == c = " "
IsDigit(c) == c \in Digits

ToLowerChar(c) ==
    CASE c = "A" -> "a" [] c = "I" -> "i" [] c = "N" -> "n" [] c = "O" -> "o"
      [] c = "P" -> "p" [] c = "Q" -> "q" [] c = "R" -> "r" [] c = "S" -> "s"
      [] c = "T" -> "t" [] c = "W" -> "w" [] OTHER -> c

ToLower(s) == [i \in 1..Len(s) |-> ToLowerChar(s[i])]

\* Byte i (0-based) of s.
At(s, i) == s[i + 1]

\* s[from:to] of Go: bytes from..to-1.
Slice(s, from, to) == SubSeq(s, from + 1, to)

\* Go's < on strings: bytewise lexicographic.
RECURSIVE StrLess(_, _)
StrLess(a, b) ==
    IF b = << >> THEN FALSE
    ELSE IF a = << >> THEN TRUE
    ELSE IF Ord(Head(a)) # Ord(Head(b)) THEN Ord(Head(a)) < Ord(Head(b))
    ELSE StrLess(Tail(a), Tail(b))

\* strings.IndexRune(s, c): the first offset of c in s, or -1.
IndexRune(s, c) ==
    IF \E i \in 1..Len(s) : s[i] = c
    THEN (CHOOSE i \in 1..Len(s) : s[i] = c /\ \A j \in 1..(i - 1) : s[j] # c) - 1
    ELSE -1

HasPrefix(s, p) == Len(s) >= Len(p) /\ SubSeq(s, 1, Len(p)) = p

\* The first offset at which sep occurs in s, or -1.
IndexOf(s, sep) ==
    LET hits == {i \in 0..(Len(s) - Len(sep)) : Slice(s, i, i + Len(sep)) = sep}
    IN IF hits = {} THEN -1 ELSE CHOOSE i \in hits : \A j \in hits : i <= j

\* strings.Split(s, sep) for a non-empty sep.
RECURSIVE Split(_, _)
Split(s, sep) ==
    LET i == IndexOf(s, sep)
    IN IF i = -1 THEN << s >>
       ELSE << Slice(s, 0, i) >> \o Split(Slice(s, i + Len(sep), Len(s)), sep)

\* strings.TrimSpace(s).
RECURSIVE TrimLeft(_)
TrimLeft(s) == IF s # << >> /\ IsSpace(Head(s)) THEN TrimLeft(Tail(s)) ELSE s

RECURSIVE TrimRight(_)
TrimRight(s) ==
    IF s # << >> /\ IsSpace(s[Len(s)]) THEN TrimRight(SubSeq(s, 1, Len(s) - 1)) ELSE s

TrimSpace(s) == TrimRight(TrimLeft(s))

\* strings.Join(strs, sep).
RECURSIVE Join(_, _)
Join(strs, sep) ==
    IF strs = << >> THEN << >>
    ELSE IF Len(strs) = 1 THEN strs[1]
    ELSE strs[1] \o sep \o Join(Tail(strs), sep)

\* sort.Strings over the strings collected from a map iteration: the
\* ascending sequence of the (distinct) strings of the set.
RECURSIVE SortStrings(_)
SortStrings(set) ==
    IF set = {} THEN << >>
    ELSE LET m == CHOOSE x \in set : \A y \in set \ {x} : StrLess(x, y)
         IN << m >> \o SortStrings(set \ {m})

AliasPrefix == << "_", "p", "f", "x", "_" >>
AliasSeparator == << "_", "s", "f", "x", "_" >>

(***************************************************************************)
(* Bind-parameter scanner                                                  *)
(***************************************************************************)

alphaNumeric(a) == IsLetter(a) \/ IsDigit(a) \/ a = "_"

numeric(a) == IsDigit(a)

\* The sigils of the prefixes map.
prefixes == {":", "@", "$", "?"}

predicate(r, a) == IF r = "?" THEN numeric(a) ELSE alphaNumeric(a)

isNameTerminator(a) == IsSpace(a) \/ a = "," \/ a = ";" \/ a = "="

indexOfNamedArgs(stmt) ==
    LET found == {IndexRune(stmt, p) : p \in prefixes} \ {-1}
    IN IF found = {} THEN -1 ELSE CHOOSE i \in found : \A j \in found : i <= j

\* The inner loop of parseNames from offset i: the offset it stops at, the
\* name consumed so far, and whether it hit an unexpected character.
RECURSIVE consumeName(_, _, _, _)
consumeName(stmt, r, i, name) ==
    IF i >= Len(stmt) THEN [i |-> i, name |-> name, err |-> FALSE]
    ELSE IF predicate(r, At(stmt, i)) THEN consumeName(stmt, r, i + 1, name \o << At(stmt, i) >>)
    ELSE IF isNameTerminator(At(stmt, i)) THEN [i |-> i, name |-> name, err |-> FALSE]
    ELSE [i |-> i, name |-> name, err |-> TRUE]

\* The outer loop of parseNames from offset i with the names found so far.
RECURSIVE scanNames(_, _, _)
scanNames(stmt, i, names) ==
    IF i >= Len(stmt) THEN [err |-> FALSE, names |-> names]
    ELSE LET r == At(stmt, i) IN
      IF r \notin prefixes THEN scanNames(stmt, i + 1, names)
      ELSE IF r = "?" /\ i + 1 < Len(stmt) /\ isNameTerminator(At(stmt, i + 1))
        THEN scanNames(stmt, i + 1, names)
      ELSE LET c == consumeName(stmt, r, i + 1, << >>)
               found == Append(names, [prefix |-> r, name |-> c.name])
               index == indexOfNamedArgs(Slice(stmt, c.i, Len(stmt)))
           IN IF c.err THEN [err |-> TRUE, names |-> << >>]
              ELSE IF c.i >= Len(stmt) THEN [err |-> FALSE, names |-> found]
              ELSE IF index = -1 THEN [err |-> FALSE, names |-> found]
              ELSE scanNames(stmt, c.i + (index - 1) + 1, found)

\* sort.Slice by name, as the insertion sort Go uses for short slices.
RECURSIVE insertName(_, _)
insertName(sorted, b) ==
    IF sorted = << >> THEN << b >>
    ELSE IF StrLess(b.name, sorted[Len(sorted)].name)
         THEN Append(insertName(SubSeq(sorted, 1, Len(sorted) - 1), b), sorted[Len(sorted)])
         ELSE Append(sorted, b)

RECURSIVE sortNames(_)
sortNames(names) ==
    IF names = << >> THEN << >>
    ELSE insertName(sortNames(SubSeq(names, 1, Len(names) - 1)), names[Len(names)])

\* parseNames returning the names in the order found.
parseNamesUnsorted(stmt, offset) == scanNames(stmt, offset, << >>)

parseNames(stmt, offset) ==
    LET res == scanNames(stmt, offset, << >>)
    IN IF res.err THEN res ELSE [err |-> FALSE, names |-> sortNames(res.names)]

(***************************************************************************)
(* Record-macro parser                                                     *)
(***************************************************************************)

indexOfRecordArgs(stmt) == IndexRune(stmt, "{")

\* The inner loop of parseRecords from offset i: where it stops, the record
\* text collected, the quote counts, and whether it hit an unexpected
\* character.
RECURSIVE consumeRecord(_, _, _, _, _)
consumeRecord(stmt, i, record, dq, sq) ==
    IF i >= Len(stmt) THEN [i |-> i, record |-> record, dq |-> dq, sq |-> sq, err |-> FALSE]
    ELSE LET char == At(stmt, i) IN
      IF IsLetter(char) \/ IsSpace(char) \/ char = "_"
        THEN consumeRecord(stmt, i + 1, record \o << char >>, dq, sq)
      ELSE IF char = "\"" THEN consumeRecord(stmt, i + 1, record, dq + 1, sq)
      ELSE IF char = "'" THEN consumeRecord(stmt, i + 1, record, dq, sq + 1)
      ELSE IF char = "}" THEN [i |-> i, record |-> record, dq |-> dq, sq |-> sq, err |-> FALSE]
      ELSE [i |-> i, record |-> record, dq |-> dq, sq |-> sq, err |-> TRUE]

\* The outer loop of parseRecords at offset i (i = offset on every entry).
RECURSIVE scanRecords(_, _, _)
scanRecords(stmt, offset, records) ==
    IF offset >= Len(stmt) THEN [err |-> "", records |-> records]
    ELSE IF At(stmt, offset) # "{" THEN [err |-> "", records |-> records]
    ELSE LET c == consumeRecord(stmt, offset + 1, << >>, 0, 0)
             parts == Split(TrimSpace(c.record), << " " >>)
             num == Len(parts)
             ok1 == num = 1
             ok3 == num = 3 /\ ToLower(parts[2]) = << "i", "n", "t", "o" >>
             name == IF ok1 THEN parts[1] ELSE parts[3]
             prefix == IF ok1 THEN << >> ELSE parts[1]
             found == Append(records, [name |-> TrimSpace(name), prefix |-> prefix,
                                       start |-> offset, end |-> c.i + 1])
             index == indexOfRecordArgs(Slice(stmt, c.i, Len(stmt)))
         IN IF c.err THEN [err |-> "unexpected struct name", records |-> << >>]
            ELSE IF ~(ok1 \/ ok3) THEN [err |-> "unexpected record statement", records |-> << >>]
            ELSE IF c.dq % 2 # 0 \/ c.sq % 2 # 0
              THEN [err |-> "missing quote terminator", records |-> << >>]
            ELSE IF c.i >= Len(stmt) THEN [err |-> "", records |-> found]
            ELSE IF index = -1 THEN [err |-> "", records |-> found]
            ELSE scanRecords(stmt, c.i + index, found)

parseRecords(stmt, offset) == scanRecords(stmt, offset, << >>)

(***************************************************************************)
(* Reflected entities                                                      *)
(***************************************************************************)

\* The record types of the tests: Person{age, name} and Record{name, ...},
\* with one-letter type names and short column names.
Person == << "P" >>
Record == << "R" >>

fa == << "a" >>
fn == << "n" >>
fnb == << "n", "b" >>

StructTypes == {"P", "R"}

\* The logical column names of a record type (ReflectStruct.Fields keys).
FieldsOfType(ty) ==
    CASE ty = "P" -> {fa, fn}
      [] ty = "R" -> {fn, fnb}
      [] OTHER -> {}

\* ReflectInfo.Kind(): the kind of the value behind the pointer.
KindOfType(ty) ==
    CASE ty \in StructTypes -> "struct"
      [] ty = "M" -> "map"
      [] ty = "L" -> "slice"
      [] OTHER -> "scalar"

\* The values a caller binds: id is the location, type its concrete type.
\* pa and pb are two Person variables, rc a Record, mp a map, sc a scalar,
\* sl a slice of Person.
Val(id, ty) == [id |-> id, type |-> ty]
vpa == Val("pa", "P")
vpb == Val("pb", "P")
vrc == Val("rc", "R")
vmp == Val("mp", "M")
vsc == Val("sc", "I")
vsl == Val("sl", "L")

\* The element type of a slice type, and the scratch element reflect.New
\* makes for it in ForMany.
ElemType(ty) == "P"
Virtual(ty) == Val("pv", ElemType(ty))

\* Reflect(value): names and tag options come from the type, field
\* locations (StructField) from the value passed.
Reflect(value) ==
    [kind |-> KindOfType(value.type),
     name |-> IF value.type \in StructTypes THEN << value.type >> ELSE << >>,
     type |-> value.type,
     inst |-> value.id]

\* ReflectCache.Reflect under its mutex: the entry cached for the type if
\* there is one, else a fresh reflection that is stored.
CacheReflect(cache, value) ==
    IF value.type \in DOMAIN cache
    THEN [info |-> cache[value.type], cache |-> cache]
    ELSE [info |-> Reflect(value), cache |-> (value.type :> Reflect(value)) @@ cache]

Fields(entity) == FieldsOfType(entity.type)

\* The map without keys.
Empty == [x \in {} |-> 0]

omitempty == << "o", "m", "i", "t", "e", "m", "p", "t", "y" >>

\* parseTag(tag) of the db tag of a field; an absent tag is the empty text.
parseTag(tag) ==
    IF tag = << >> THEN [err |-> "unexpected empty tag", Name |-> << >>, OmitEmpty |-> FALSE]
    ELSE LET options == Split(tag, << "," >>)
         IN IF Len(options) = 2
            THEN IF ToLower(options[2]) # omitempty
                 THEN [err |-> "unexpected tag value", Name |-> << >>, OmitEmpty |-> FALSE]
                 ELSE [err |-> "", Name |-> options[1], OmitEmpty |-> TRUE]
            ELSE IF Len(options) = 1
                 THEN [err |-> "", Name |-> options[1], OmitEmpty |-> FALSE]
            ELSE [err |-> "", Name |-> << >>, OmitEmpty |-> FALSE]

\* The field loop of Reflect over the fields k.. of a struct type, each a
\* [Name, tag]; found maps the logical names so far to their fields.
RECURSIVE reflectFields(_, _, _)
reflectFields(fields, k, found) ==
    IF k > Len(fields) THEN [err |-> "", Fields |-> found]
    ELSE LET tag == parseTag(fields[k].tag)
             name == IF tag.Name = << >> THEN ToLower(fields[k].Name) ELSE tag.Name
             entry == [Name |-> fields[k].Name, OmitEmpty |-> tag.OmitEmpty]
         IN IF tag.err # "" THEN [err |-> tag.err, Fields |-> Empty]
            ELSE reflectFields(fields, k + 1,
                               [n \in DOMAIN found \cup {name} |->
                                   IF n = name THEN entry ELSE found[n]])

(***************************************************************************)
(* Record-macro expander                                                   *)
(***************************************************************************)

\* fieldIntersections: for the entity name, the field names that occur in
\* two or more of the entities; nothing when there is at most one entity.
fieldIntersections(entities, name) ==
    IF Len(entities) <= 1 THEN {}
    ELSE {f \in UNION {Fields(entities[i]) : i \in 1..Len(entities)} :
            /\ Cardinality({i \in 1..Len(entities) : f \in Fields(entities[i])}) > 1
            /\ \E i \in 1..Len(entities) :
                 entities[i].name = name /\ f \in Fields(entities[i])}

\* The expression expandRecords emits for one field of the matched entity.
EmitFieldNoCollisionCheck(prefix, name, entityInter) ==
    IF prefix = << >> THEN name
    ELSE prefix \o << "." >> \o name
           \o << " ", "A", "S", " " >> \o AliasPrefix \o prefix \o AliasSeparator \o name

EmitField(prefix, name, entityInter) ==
    IF prefix = << >> THEN name
    ELSE prefix \o << "." >> \o name
           \o (IF name \in entityInter
               THEN << " ", "A", "S", " " >> \o AliasPrefix \o prefix \o AliasSeparator \o name
               ELSE << >>)

\* The column list for one record binding and its entity.
RecordList(record, entity, entities) ==
    Join(SortStrings({EmitField(record.prefix, name, fieldIntersections(entities, entity.name)) :
                        name \in Fields(entity)}),
         << ",", " " >>)

\* recordBinding.translate taking every expansion to be as long as its macro.
translateSameLength(f, expantion) == 0

\* recordBinding.translate
translate(f, expantion) == expantion - (f.end - f.start)

\* The loop of expandRecords over records[k..] with the running offset.
RECURSIVE expandFrom(_, _, _, _, _)
expandFrom(stmt, records, k, entities, offset) ==
    IF k > Len(records) THEN [err |-> "", stmt |-> stmt]
    ELSE LET record == records[k]
             matches == {i \in 1..Len(entities) : entities[i].name = record.name}
         IN IF matches = {} THEN [err |-> "no entity found", stmt |-> << >>]
            ELSE LET entity == entities[CHOOSE i \in matches : \A j \in matches : i <= j]
                     recordList == RecordList(record, entity, entities)
                 IN IF offset + record.end > Len(stmt) \/ offset + record.start < 0
                    THEN [err |-> "panic", stmt |-> << >>]
                    ELSE expandFrom(Slice(stmt, 0, offset + record.start) \o recordList
                                      \o Slice(stmt, offset + record.end, Len(stmt)),
                                    records, k + 1, entities,
                                    offset + translate(record, Len(recordList)))

expandRecords(stmt, records, entities) == expandFrom(stmt, records, 1, entities, 0)

\* Query.compileStatement
compileStatement(stmt, entities) ==
    IF indexOfRecordArgs(stmt) < 0 THEN [err |-> "", stmt |-> stmt, fields |-> << >>]
    ELSE LET parsed == parseRecords(stmt, indexOfRecordArgs(stmt))
             expanded == expandRecords(stmt, parsed.records, entities)
         IN IF parsed.err # "" THEN [err |-> parsed.err, stmt |-> << >>, fields |-> << >>]
            ELSE IF expanded.err # "" THEN [err |-> expanded.err, stmt |-> << >>, fields |-> << >>]
            ELSE [err |-> "", stmt |-> expanded.stmt, fields |-> parsed.records]

(***************************************************************************)
(* Column mapping                                                          *)
(***************************************************************************)

\* The alias decoding splitting the whole column name.
DecodeColumnWholeName(columnName) ==
    IF HasPrefix(columnName, AliasPrefix)
    THEN LET parts == Split(columnName, AliasSeparator)
         IN IF Len(parts) < 2 THEN [panic |-> TRUE, prefix |-> << >>, name |-> << >>]
            ELSE [panic |-> FALSE, prefix |-> parts[1], name |-> parts[2]]
    ELSE [panic |-> FALSE, prefix |-> << >>, name |-> columnName]

\* The alias decoding of structMapping: prefix and field of a column name,
\* the empty prefix for a name that does not start with AliasPrefix.
DecodeColumn(columnName) ==
    IF HasPrefix(columnName, AliasPrefix)
    THEN LET parts == Split(Slice(columnName, Len(AliasPrefix), Len(columnName)), AliasSeparator)
         IN IF Len(parts) < 2 THEN [panic |-> TRUE, prefix |-> << >>, name |-> << >>]
            ELSE [panic |-> FALSE, prefix |-> parts[1], name |-> parts[2]]
    ELSE [panic |-> FALSE, prefix |-> << >>, name |-> columnName]

\* Whether structMapping accepts the entity for the decoded column.
AcceptsIgnoringPrefix(entity, d, fields) == d.name \in Fields(entity)

Accepts(entity, d, fields) ==
    /\ d.name \in Fields(entity)
    /\ d.prefix # << >> =>
         \E k \in 1..Len(fields) :
            fields[k].name = entity.name /\ fields[k].prefix = d.prefix

\* The destination structMapping binds to one column: the field location
\* <<instance, field>> in the first accepting entity, if there is one.
MapColumn(columnName, entities, fields) ==
    LET d == DecodeColumn(columnName)
        ok == {i \in 1..Len(entities) : Accepts(entities[i], d, fields)}
    IN IF d.panic THEN [status |-> "panic", loc |-> << "", << >> >>]
       ELSE IF ok = {} THEN [status |-> "missing", loc |-> << "", << >> >>]
       ELSE [status |-> "ok",
             loc |-> << entities[CHOOSE i \in ok : \A j \in ok : i <= j].inst, d.name >>]

\* Query.structMapping
structMapping(columns, entities, fields) ==
    LET dest == [i \in 1..Len(columns) |-> MapColumn(columns[i], entities, fields)]
        bad == {i \in 1..Len(columns) : dest[i].status # "ok"}
    IN IF bad = {} THEN [err |-> "", columnar |-> [i \in 1..Len(columns) |-> dest[i].loc]]
       ELSE [err |-> IF dest[CHOOSE i \in bad : \A j \in bad : i <= j].status = "panic"
                     THEN "panic" ELSE "missing destination",
             columnar |-> << >>]

(***************************************************************************)
(* Named-argument constructor and the binding constructors                 *)
(***************************************************************************)

\* constructNamedArgs leaving out the names the source does not hold.
constructNamedArgsSkipMissing(arg, names) ==
    IF arg.kind \notin {"map", "struct"} THEN [err |-> "not supported", inputs |-> << >>]
    ELSE LET held == SelectSeq(names, LAMBDA b : b.name \in DOMAIN arg.vals)
         IN [err |-> "",
             inputs |-> [k \in 1..Len(held) |->
                           [name |-> held[k].name, value |-> arg.vals[held[k].name]]]]

\* constructNamedArgs: arg is the first extra argument of Query, a map
\* (kind "map"), a tagged record ("struct"), an array or slice ("slice") or
\* anything else; vals maps its keys or column names to their values.
constructNamedArgs(arg, names) ==
    IF arg.kind = "slice" THEN [err |-> "not supported", inputs |-> << >>]
    ELSE IF arg.kind \notin {"map", "struct"} THEN [err |-> "not supported", inputs |-> << >>]
    ELSE IF \E k \in 1..Len(names) : names[k].name \notin DOMAIN arg.vals
         THEN [err |-> "name missing", inputs |-> << >>]
         ELSE [err |-> "",
               inputs |-> [k \in 1..Len(names) |->
                             [name |-> names[k].name, value |-> arg.vals[names[k].name]]]]

NoEntity == [kind |-> "none", name |-> << >>, type |-> "", inst |-> ""]

\* The zero Query returned next to an error.  values and err are history:
\* the values the constructor was called with and the error it returned.
NoQuery(err, values) ==
    [plan |-> "none", entities |-> << >>, element |-> NoEntity, hook |-> FALSE,
     values |-> values, err |-> err]

\* The loop of ForOne over values[k..]: reflects each value through the
\* cache and compares its kind with the previous one.
RECURSIVE reflectValues(_, _, _, _)
reflectValues(cache, values, k, entities) ==
    IF k > Len(values) THEN [err |-> "", entities |-> entities, cache |-> cache]
    ELSE LET r == CacheReflect(cache, values[k])
             i == k - 1
         IN IF i > 1 /\ entities[k - 1].kind # r.info.kind
            THEN [err |-> "kind mismatch", entities |-> << >>, cache |-> r.cache]
            ELSE reflectValues(r.cache, values, k + 1, Append(entities, r.info))

\* Querier.ForOne: the Query (or the error) and the reflection cache after.
\* r is the result of the reflect loop.
planFor(hk, values, r) ==
    LET built(plan) == [plan |-> plan, entities |-> r.entities, element |-> NoEntity,
                        hook |-> hk, values |-> values, err |-> ""]
    IN IF r.err # "" THEN [query |-> NoQuery(r.err, values), cache |-> r.cache]
       ELSE IF Len(values) = 0 THEN [query |-> built("default"), cache |-> r.cache]
       ELSE IF r.entities[1].kind = "struct"
         THEN IF \E i \in 1..Len(r.entities) : r.entities[i].kind # "struct"
              THEN [query |-> NoQuery("panic", values), cache |-> r.cache]
              ELSE [query |-> built("struct"), cache |-> r.cache]
       ELSE IF r.entities[1].kind = "map"
         THEN IF Len(values) > 1
              THEN [query |-> NoQuery("kind mismatch", values), cache |-> r.cache]
              ELSE [query |-> built("map"), cache |-> r.cache]
       ELSE [query |-> built("default"), cache |-> r.cache]

forOne(cache, hk, values) == planFor(hk, values, reflectValues(cache, values, 1, << >>))

\* Querier.ForMany
forMany(cache, hk, value) ==
    LET r == CacheReflect(cache, value)
        e == CacheReflect(r.cache, Virtual(value.type))
    IN IF r.info.kind # "slice" THEN [query |-> NoQuery("kind mismatch", << value >>), cache |-> r.cache]
       ELSE IF e.info.kind # "struct" THEN [query |-> NoQuery("kind mismatch", << value >>), cache |-> e.cache]
       ELSE [query |-> [plan |-> "slice", entities |-> << r.info >>, element |-> e.info,
                        hook |-> hk, values |-> << value >>, err |-> ""],
             cache |-> e.cache]

(***************************************************************************)
(* Inputs                                                                  *)
(***************************************************************************)

\* Raw statement texts.
stP == << "S", " ", "{", "t", " ", "I", "N", "T", "O", " ", "P", "}" >>
stPR == << "S", " ", "{", "t", " ", "I", "N", "T", "O", " ", "P", "}", ",", " ", "{", "r", " ", "I", "N", "T", "O", " ", "R", "}" >>
stBare == << "S", " ", "{", "P", "}" >>
stQ == << "S", " ", "{", "t", " ", "I", "N", "T", "O", " ", "Q", "}" >>
stBad == << "S", " ", "{", "t", " ", "P", "}" >>
stN == << "S", " ", "n", " ", "W", " ", "n", "=", ":", "n" >>
stBadN == << "S", " ", ":", "n", ")" >>
stPlain == << "S", " ", "z" >>
stTwo == << "S", " ", "a", ",", " ", "n" >>

Stmts == {stP, stPR, stBare, stQ, stBad, stN, stBadN, stPlain, stTwo}

\* First extra arguments: a map with key n, an empty map, a tagged record
\* with column n, a slice; and a positional value.
srcMap == [kind |-> "map", vals |-> (fn :> "fred")]
srcEmpty == [kind |-> "map", vals |-> [x \in {} |-> ""]]
srcStruct == [kind |-> "struct", vals |-> (fn :> "fred")]
srcSlice == [kind |-> "slice", vals |-> [x \in {} |-> ""]]
posArg == [kind |-> "scalar", vals |-> [x \in {} |-> ""]]

\* The Query calls a caller makes: a statement and its extra arguments.
QueryCall(stmt, args) == [stmt |-> stmt, args |-> args]

Calls ==
    {QueryCall(st, << >>) : st \in Stmts}
      \cup {QueryCall(stN, args) :
              args \in {<< srcMap >>, << srcEmpty >>, << srcStruct, posArg >>, << srcSlice >>}}
      \cup {QueryCall(stPlain, << posArg >>)}

\* Destination lists handed to ForOne: none, one Person, another Person, a
\* Person joined with a Record, a map, and a scalar next to a Person.
ValueLists == {<< >>, << vpa >>, << vpb >>, << vpa, vrc >>, << vmp >>, << vsc, vpa >>}

Alias(prefix, name) == AliasPrefix \o prefix \o AliasSeparator \o name

\* The name the database gives the result column of one select expression:
\* the alias after AS, else the column after the table qualifier.
ColumnName(expr) ==
    LET as == IndexOf(expr, << " ", "A", "S", " " >>)
        dot == IndexRune(expr, ".")
    IN IF as >= 0 THEN Slice(expr, as + 4, Len(expr))
       ELSE IF dot >= 0 THEN Slice(expr, dot + 1, Len(expr))
       ELSE expr

\* The result columns of an executed text "S <expr>, <expr> [W <cond>]".
DbColumns(text) ==
    LET w == IndexOf(text, << " ", "W", " " >>)
        list == Slice(text, 2, IF w >= 0 THEN w ELSE Len(text))
        exprs == Split(list, << ",", " " >>)
    IN [i \in 1..Len(exprs) |-> ColumnName(exprs[i])]

\* The most rows a result holds, and the most elements the destination
\* collection grows to.
MaxRows == 2
MaxSlice == 2

NumThreads == 2
Threads == 1..NumThreads

(***************************************************************************)
(* State                                                                   *)
(***************************************************************************)

VARIABLES
    hook,          \* Querier.hook is set
    reflectCache,  \* ReflectCache.cache: type -> reflected entity
    stmtCache,     \* statementCache.cache: raw text -> [stmt, fields]
    mem,           \* the caller's variables: <<location, field>> -> value
    slice,         \* the elements of the destination collection sl
    query,         \* per caller, the Query it holds
    pc,            \* per caller, where its Query call stands
    call,          \* per caller, the locals of its Query call
    firstExec,     \* history: raw text -> text executed by its first successful call
    input,         \* the arguments of a function called on its own
    output,        \* what that function returned, as << result >>
    txn,           \* a txnBuilder and the Commit it is in
    schema,        \* a Schema, the schema table and the patches that ran
    engine         \* a State and its StateEngine

vars == << hook, reflectCache, stmtCache, mem, slice, query, pc, call, firstExec,
           input, output, txn, schema, engine >>

Services == << txn, schema, engine >>

Range(f) == {f[x] : x \in DOMAIN f}

Contains(s, c) == \E i \in 1..Len(s) : s[i] = c

NoCall ==
    [stmt |-> << >>, args |-> << >>, compiled |-> << >>, fields |-> << >>,
     hit |-> FALSE, parsed |-> FALSE, prior |-> FALSE, columns |-> << >>, nrows |-> 0,
     columnar |-> << >>, err |-> "", hooked |-> << >>, executed |-> << >>,
     raced |-> FALSE, rows |-> "none"]

\* No function is called on its own.
NoInput == [op |-> "none"]

\* CreateTxn: a builder on a context, with no function staged and no Commit
\* under way.  log is the history of the current Commit attempt.
CreateTxn ==
    [ctx |-> "live", runnables |-> << >>, pc |-> "idle", next |-> 0, attempts |-> 0,
     cancelled |-> FALSE, log |-> << >>, err |-> "none"]

\* Empty: a Schema with no patches, on a database without a schema table.
\* ran is the history of what committed transactions did; before is the
\* number of patches the Schema held when its last Ensure was called and
\* prior the history at that moment.
EmptySchema ==
    [patches |-> 0, table |-> FALSE, versions |-> << >>, ran |-> << >>,
     before |-> 0, prior |-> << >>, changeSet |-> [Current |-> -1, Applied |-> -1],
     err |-> "none"]

ManagerNames == {"schemaMgr", "actionMgr", "extraMgr"}

\* NewState: the engine with the schema manager registered first, then the
\* action manager.  startUps, returned and stops are the history of the calls
\* the managers received, calls counts the StartUp calls made and last is
\* what the latest of them returned.
NewState ==
    [managers |-> << "schemaMgr", "actionMgr" >>, stateStarted |-> FALSE,
     started |-> FALSE, stopped |-> FALSE,
     startUps |-> [m \in ManagerNames |-> 0],
     returned |-> [m \in ManagerNames |-> "none"],
     stops |-> [m \in ManagerNames |-> 0],
     calls |-> 0, last |-> "none"]

InitServices ==
    /\ txn = CreateTxn
    /\ schema = EmptySchema
    /\ engine = NewState

InitQuerier ==
    /\ hook = FALSE
    /\ reflectCache = Empty
    /\ stmtCache = Empty
    /\ mem = Empty
    /\ slice = << >>
    /\ query = [t \in Threads |-> NoQuery("", << >>)]
    /\ pc = [t \in Threads |-> "idle"]
    /\ call = [t \in Threads |-> NoCall]
    /\ firstExec = Empty

Init ==
    /\ InitQuerier
    /\ InitServices
    /\ input = NoInput
    /\ output = << >>

(***************************************************************************)
(* Query.Query                                                             *)
(***************************************************************************)

\* Query.Query up to the call of the execute plan: the error, or the
\* arguments to forward.
\* Query.Query putting the named arguments in front of the remaining ones.
queryPreludeNamedFirst(stmt, args) ==
    LET offset == indexOfNamedArgs(stmt)
        pn == IF offset >= 0 THEN parseNames(stmt, offset) ELSE [err |-> FALSE, names |-> << >>]
        cna == constructNamedArgs(args[1], pn.names)
    IN IF pn.err THEN [err |-> "unexpected named argument", args |-> << >>]
       ELSE IF Len(args) = 0 /\ Len(pn.names) > 0
         THEN [err |-> "expected arguments", args |-> << >>]
       ELSE IF Len(pn.names) > 0 /\ Len(args) >= 1
         THEN IF cna.err # "" THEN [err |-> cna.err, args |-> << >>]
              ELSE [err |-> "", args |-> cna.inputs \o Tail(args)]
       ELSE [err |-> "", args |-> args]

queryPrelude(stmt, args) ==
    LET offset == indexOfNamedArgs(stmt)
        pn == IF offset >= 0 THEN parseNames(stmt, offset) ELSE [err |-> FALSE, names |-> << >>]
        cna == constructNamedArgs(args[1], pn.names)
    IN IF pn.err THEN [err |-> "unexpected named argument", args |-> << >>]
       ELSE IF Len(args) = 0 /\ Len(pn.names) > 0
         THEN [err |-> "expected arguments", args |-> << >>]
       ELSE IF Len(pn.names) > 0 /\ Len(args) >= 1
         THEN IF cna.err # "" THEN [err |-> cna.err, args |-> << >>]
              ELSE [err |-> "", args |-> Tail(args) \o cna.inputs]
       ELSE [err |-> "", args |-> args]

\* The entities a plan compiles and maps against.
planEntities(q) == IF q.plan = "slice" THEN << q.element >> ELSE q.entities

\* The locals of the call at the call of Query.query, from the result pre of
\* Query.Query's prelude and the result comp of compileStatement.
callRecord(q, cache, stmt, prior, pre, comp) ==
    LET hit == q.plan = "struct" /\ stmt \in DOMAIN cache
        compiles == q.plan \in {"struct", "slice"} /\ ~hit
        err == IF pre.err # "" THEN pre.err ELSE IF compiles THEN comp.err ELSE ""
    IN [NoCall EXCEPT
          !.stmt = stmt,
          !.prior = prior,
          !.err = err,
          !.args = IF err = "" THEN pre.args ELSE << >>,
          !.hit = pre.err = "" /\ hit,
          !.parsed = pre.err = "" /\ compiles /\ indexOfRecordArgs(stmt) >= 0,
          !.compiled = IF err # "" THEN << >>
                       ELSE IF hit THEN cache[stmt].stmt
                       ELSE IF compiles THEN comp.stmt ELSE stmt,
          !.fields = IF err # "" THEN << >>
                     ELSE IF hit THEN cache[stmt].fields
                     ELSE IF compiles THEN comp.fields ELSE << >>]

\* beginCall with the hook invoked on entry, before the text is checked.
beginCallHookFirst(q, cache, stmt, args, prior) ==
    [callRecord(q, cache, stmt, prior, queryPrelude(stmt, args),
                compileStatement(stmt, planEntities(q)))
       EXCEPT !.hooked = IF q.hook THEN << stmt >> ELSE << >>]

\* Query.Query followed by the head of the execute plan, up to the call of
\* Query.query: structScan looks the raw text up in the statement cache and
\* compiles on a miss, sliceStructScan compiles, the other plans take the
\* text as it is.
beginCall(q, cache, stmt, args, prior) ==
    callRecord(q, cache, stmt, prior, queryPrelude(stmt, args),
               compileStatement(stmt, planEntities(q)))

\* Query.query: the hook, then tx.Query and rows.ColumnTypes.  outcome is
\* what the database answers.
\* The cursor Query.query leaves behind, with a ColumnTypes failure that
\* does not close it.
rowsAfterLeak(outcome) ==
    IF outcome \in {"ok", "columns error"} THEN "open" ELSE "none"

\* The cursor Query.query leaves behind: none when tx.Query failed, closed
\* when rows.ColumnTypes failed, open when it is handed to the plan.
rowsAfter(outcome) ==
    CASE outcome = "ok" -> "open"
      [] outcome = "columns error" -> "closed"
      [] OTHER -> "none"

\* Query.query with the hook handed the text as the caller wrote it.
runQueryRawHook(q, c, outcome, columns, nrows) ==
    [c EXCEPT
       !.rows = rowsAfter(outcome),
       !.hooked = IF q.hook THEN Append(c.hooked, c.stmt) ELSE c.hooked,
       !.executed = Append(c.executed, c.compiled),
       !.err = IF outcome = "ok" THEN "" ELSE outcome,
       !.columns = IF outcome = "ok" THEN columns ELSE << >>,
       !.nrows = IF outcome = "ok" THEN nrows ELSE 0]

\* Query.query: the hook, tx.Query, rows.ColumnTypes.
runQuery(q, c, outcome, columns, nrows) ==
    [c EXCEPT
       !.rows = rowsAfter(outcome),
       !.hooked = IF q.hook THEN Append(c.hooked, c.compiled) ELSE c.hooked,
       !.executed = Append(c.executed, c.compiled),
       !.err = IF outcome = "ok" THEN "" ELSE outcome,
       !.columns = IF outcome = "ok" THEN columns ELSE << >>,
       !.nrows = IF outcome = "ok" THEN nrows ELSE 0]

\* The variables after the rows 1..good were scanned into dests: the last
\* row wins.
WriteRows(m, dests, good) ==
    IF good = 0 THEN m
    ELSE [loc \in DOMAIN m \cup Range(dests) |-> IF loc \in Range(dests) THEN good ELSE m[loc]]

\* The error of scanOne and of the row loop of sliceStructScan.
scanErr(fail) ==
    CASE fail = "scan" -> "scan error" [] fail = "rows" -> "rows error" [] OTHER -> ""

\* The value of the scratch element appended for row r.
elementValue(m, element, dests, r) ==
    [f \in Fields(element) |->
        IF << element.inst, f >> \in Range(dests) THEN r
        ELSE IF << element.inst, f >> \in DOMAIN m THEN m[<< element.inst, f >>] ELSE 0]

\* The row loop of sliceStructScan filling the collection from its start.
appendRowsFromStart(sl, m, element, dests, good) ==
    [r \in 1..good |-> elementValue(m, element, dests, r)]

\* The row loop of sliceStructScan with every appended element sharing the
\* scratch element, which holds the last row.
appendRowsAliased(sl, m, element, dests, good) ==
    sl \o [r \in 1..good |-> elementValue(m, element, dests, good)]

\* The row loop of sliceStructScan: each row is scanned into the scratch
\* element and a copy of it is appended.
appendRows(sl, m, element, dests, good) ==
    sl \o [r \in 1..good |-> elementValue(m, element, dests, r)]

\* The tail of an execute plan after Query.query returned rows: good rows
\* scan without error, then fail says how the row loop ends.
\* mapping is the result of structMapping for the plans that map columns.
planTail(q, c, m, sl, good, fail, mapping) ==
    LET scalars == [i \in 1..Len(q.entities) |-> << q.entities[i].inst, << >> >>]
        keys == [i \in 1..Len(c.columns) |-> << q.entities[1].inst, c.columns[i] >>]
        done(err, m2, sl2, dests) == [err |-> err, mem |-> m2, slice |-> sl2, columnar |-> dests]
    IN CASE q.plan = "default" ->
              IF Len(c.columns) # Len(q.entities)
                THEN done("column count", m, sl, << >>)
              ELSE IF \E i \in 1..Len(q.entities) : q.entities[i].kind = "struct"
                THEN done("mixed entities not supported", m, sl, << >>)
              ELSE done(scanErr(fail), WriteRows(m, scalars, good), sl, scalars)
         [] q.plan = "map" ->
              IF fail = "panic" THEN done("panic", m, sl, << >>)
              ELSE IF fail # "" THEN done(scanErr(fail), m, sl, << >>)
              ELSE done("", [loc \in DOMAIN m \cup Range(keys) |->
                               IF loc \in Range(keys) THEN good ELSE m[loc]], sl, keys)
         [] q.plan = "struct" ->
              IF mapping.err # "" THEN done(mapping.err, m, sl, << >>)
              ELSE done(scanErr(fail), WriteRows(m, mapping.columnar, good), sl, mapping.columnar)
         [] q.plan = "slice" ->
              IF c.nrows = 0 THEN done(scanErr(fail), m, sl, << >>)
              ELSE IF mapping.err # "" THEN done(mapping.err, m, sl, << >>)
              ELSE done(scanErr(fail), WriteRows(m, mapping.columnar, good),
                        appendRows(sl, m, q.element, mapping.columnar, good),
                        mapping.columnar)

\* structScan inserting whatever the outcome of the scan.
setsStatementOnError(q, c, err) == q.plan = "struct" /\ c.stmt # c.compiled

\* Whether the plan of q ends with statementCache.Set for the call c that
\* finished with err: structScan does, for a text that compiling changed.
setsStatement(q, c, err) == err = "" /\ q.plan = "struct" /\ c.stmt # c.compiled

\* statementCache.Set(stmt, cachedStmt{compiledStmt, fields})
Set(cache, c) ==
    [s \in DOMAIN cache \cup {c.stmt} |->
        IF s = c.stmt THEN [stmt |-> c.compiled, fields |-> c.fields] ELSE cache[s]]

\* The tail of the execute plan of q.
scanRows(q, c, m, sl, good, fail) ==
    planTail(q, c, m, sl, good, fail, structMapping(c.columns, planEntities(q), c.fields))

(***************************************************************************)
(* Actions                                                                 *)
(***************************************************************************)

\* Querier.Hook
SetHook ==
    /\ ~hook
    /\ hook' = TRUE
    /\ UNCHANGED << reflectCache, stmtCache, mem, slice, query, pc, call, firstExec, input, output, Services >>

\* Querier.ForOne(values...)
ForOne(t, lists) ==
    /\ pc[t] = "idle"
    /\ \E values \in lists :
         \E r \in {forOne(reflectCache, hook, values)} :
            /\ query' = [query EXCEPT ![t] = r.query]
            /\ reflectCache' = r.cache
    /\ UNCHANGED << hook, stmtCache, mem, slice, pc, call, firstExec, input, output, Services >>

\* Querier.ForMany(value)
ForMany(t, values) ==
    /\ pc[t] = "idle"
    /\ \E value \in values :
         \E r \in {forMany(reflectCache, hook, value)} :
            /\ query' = [query EXCEPT ![t] = r.query]
            /\ reflectCache' = r.cache
    /\ UNCHANGED << hook, stmtCache, mem, slice, pc, call, firstExec, input, output, Services >>

\* The caller is between a missed statementCache.Get and its Set.
InWindow(u) == pc[u] \in {"exec", "scan"} /\ query[u].plan = "struct" /\ ~call[u].hit

\* History: another caller locked the statement cache while u was between
\* its Get and its Set.
MarkRaced(c, t, locks) ==
    [u \in Threads |->
        IF u # t /\ locks /\ InWindow(u) THEN [c[u] EXCEPT !.raced = TRUE] ELSE c[u]]

\* Query.Query(tx, stmt, args...) up to the call of Query.query.
Begin(t, calls) ==
    /\ pc[t] = "idle"
    /\ query[t].plan # "none"
    /\ query[t].plan = "slice" => Len(slice) < MaxSlice
    /\ \E in \in calls :
         \E c \in {beginCall(query[t], stmtCache, in.stmt, in.args, in.stmt \in DOMAIN firstExec)} :
            LET gets == query[t].plan = "struct" /\ (c.hit \/ c.err = "" \/ c.parsed)
            IN /\ call' = MarkRaced([call EXCEPT ![t] = c], t, gets)
               /\ pc' = [pc EXCEPT ![t] = IF c.err = "" THEN "exec" ELSE "done"]
    /\ UNCHANGED << hook, reflectCache, stmtCache, mem, slice, query, firstExec, input, output, Services >>

\* What the database may answer to a text: a text with a record macro left
\* in it is not SQL.
DbOutcomes(text) ==
    IF Contains(text, "{") THEN {"query error"}
    ELSE {"ok", "query error", "columns error"}

\* Query.query: hook, tx.Query, rows.ColumnTypes.
Exec(t) ==
    /\ pc[t] = "exec"
    /\ \E outcome \in DbOutcomes(call[t].compiled), nrows \in 0..MaxRows :
         /\ outcome # "ok" => nrows = 0
         /\ query[t].plan = "slice" => Len(slice) + nrows <= MaxSlice
         /\ call' = [call EXCEPT ![t] = runQuery(query[t], call[t], outcome, DbColumns(call[t].compiled), nrows)]
         /\ pc' = [pc EXCEPT ![t] = IF outcome = "ok" THEN "scan" ELSE "done"]
    /\ UNCHANGED << hook, reflectCache, stmtCache, mem, slice, query, firstExec, input, output, Services >>

\* The rest of the execute plan: column mapping, the row loop, rows.Close
\* and, in structScan, the statement cache insert.
Scan(t) ==
    /\ pc[t] = "scan"
    /\ \E good \in 0..call[t].nrows, fail \in {"", "scan", "rows", "panic"} :
         /\ fail = "scan" => good < call[t].nrows
         /\ fail \in {"", "rows"} => good = call[t].nrows
         /\ fail = "panic" => query[t].plan = "map" /\ good = 0
         /\ \E r \in {scanRows(query[t], call[t], mem, slice, good, fail)} :
            LET c == call[t]
                sets == setsStatement(query[t], c, r.err)
            IN /\ call' = MarkRaced([call EXCEPT ![t].err = r.err, ![t].columnar = r.columnar,
                                                 ![t].rows = "closed"],
                                    t, sets)
               /\ mem' = r.mem
               /\ slice' = r.slice
               /\ stmtCache' = IF sets THEN Set(stmtCache, c) ELSE stmtCache
               /\ firstExec' =
                    IF r.err = "" /\ indexOfRecordArgs(c.stmt) >= 0 /\ c.stmt \notin DOMAIN firstExec
                    THEN (c.stmt :> c.compiled) @@ firstExec
                    ELSE firstExec
    /\ pc' = [pc EXCEPT ![t] = "done"]
    /\ UNCHANGED << hook, reflectCache, query, input, output, Services >>

\* Query.Query returns to the caller, which takes the result and zeroes its
\* destination variables for the next call.
Return(t) ==
    /\ pc[t] = "done"
    /\ pc' = [pc EXCEPT ![t] = "idle"]
    /\ call' = [call EXCEPT ![t] = NoCall]
    /\ mem' = Empty
    /\ UNCHANGED << hook, reflectCache, stmtCache, slice, query, firstExec, input, output, Services >>

(***************************************************************************)
(* One caller of Queries built by ForOne: Query calls in sequence          *)
(***************************************************************************)

Caller == CHOOSE t \in Threads : \A u \in Threads : t <= u

Next ==
    \/ SetHook
    \/ ForOne(Caller, ValueLists)
    \/ Begin(Caller, Calls)
    \/ Exec(Caller)
    \/ Scan(Caller)
    \/ Return(Caller)

Spec == Init /\ [][Next]_vars

(***************************************************************************)
(* One caller of Queries built by ForMany and ForOne                       *)
(***************************************************************************)

ManyCalls == {QueryCall(st, << >>) : st \in {stP, stBare, stQ, stPlain}}

NextMany ==
    \/ SetHook
    \/ ForMany(Caller, {vsl, vpa})
    \/ ForOne(Caller, {<< vpa >>})
    \/ Begin(Caller, ManyCalls)
    \/ Exec(Caller)
    \/ Scan(Caller)
    \/ Return(Caller)

SpecMany == Init /\ [][NextMany]_vars

(***************************************************************************)
(* The binding constructors alone, over every list of destinations         *)
(***************************************************************************)

\* The longest list of destinations handed to ForOne.
MaxArity == 3

Values == {vpa, vpb, vrc, vmp, vsc}

AllValueLists == UNION {[1..n -> Values] : n \in 0..MaxArity}

NextBuild ==
    \/ SetHook
    \/ ForOne(Caller, AllValueLists)
    \/ ForMany(Caller, Values \cup {vsl})

SpecBuild == Init /\ [][NextBuild]_vars

(***************************************************************************)
(* Concurrent callers of one Querier                                       *)
(***************************************************************************)

ConcValueLists == {<< vpa >>, << vpa, vrc >>}

ConcCalls == {QueryCall(stP, << >>)}

NextConc ==
    \E t \in Threads :
        \/ ForOne(t, ConcValueLists)
        \/ Begin(t, ConcCalls)
        \/ Exec(t)
        \/ Scan(t)
        \/ Return(t)

SpecConc == Init /\ [][NextConc]_vars

(***************************************************************************)
(* One caller, one Query of each execute plan                              *)
(***************************************************************************)

PlanLists == {<< vpa >>, << vmp >>, << vsc >>}

PlanCalls == {QueryCall(st, << >>) : st \in {stP, stPlain, stTwo}}

NextPlans ==
    \/ SetHook
    \/ ForOne(Caller, PlanLists)
    \/ ForMany(Caller, {vsl})
    \/ Begin(Caller, PlanCalls)
    \/ Exec(Caller)
    \/ Scan(Caller)
    \/ Return(Caller)

SpecPlans == Init /\ [][NextPlans]_vars

(***************************************************************************)
(* The parsers and converters called on their own                          *)
(***************************************************************************)

\* The longest statement text handed to parseNames.
MaxText == 5

\* The characters of the statements scanned for bind tokens: sigils, name
\* characters, a digit, a terminator and a character that is neither.
NameAlphabet == {":", "?", "a", "b", "1", " ", ")"}

\* The offset Query.Query hands to parseNames.
NamesOffset(stmt) == IF indexOfNamedArgs(stmt) >= 0 THEN indexOfNamedArgs(stmt) ELSE 0

\* parseNames is handed any text of at most MaxText characters.
NamesInput ==
    \E k \in 0..MaxText : \E stmt \in [1..k -> NameAlphabet] :
        input = [op |-> "parseNames", stmt |-> stmt, offset |-> NamesOffset(stmt)]

\* The longest list of bindings handed to constructNamedArgs.
MaxNames == 2

\* A map and a tagged record holding both columns.
srcBothMap == [kind |-> "map", vals |-> (fa :> "42") @@ (fn :> "fred")]
srcBothStruct == [kind |-> "struct", vals |-> (fa :> "42") @@ (fn :> "fred")]

Sources == {srcMap, srcEmpty, srcStruct, srcSlice, posArg, srcBothMap, srcBothStruct}

Bindings == {[prefix |-> ":", name |-> fn], [prefix |-> "@", name |-> fa],
             [prefix |-> "?", name |-> << "1" >>]}

NamedArgsInput ==
    \E arg \in Sources, k \in 0..MaxNames : \E names \in [1..k -> Bindings] :
        input = [op |-> "constructNamedArgs", arg |-> arg, names |-> names]

\* The most extra arguments handed to Query.Query.
MaxArgs == 3

\* Another positional value.
posOther == [kind |-> "scalar", vals |-> (fa :> "other")]

\* Statements with two names in descending order, with a bare question
\* mark before a terminator, and with a numbered one.
stBA == << "S", " ", "z", " ", "W", " ", ":", "n", " ", "@", "a" >>
stMark == << "S", " ", "z", " ", "W", " ", "a", "=", "?", " ", "L" >>
stNum == << "S", " ", "z", " ", "W", " ", "a", "=", "?", "1" >>

ArgValues == {srcBothMap, srcStruct, posArg, posOther}

QueryArgsInput ==
    \E stmt \in {stN, stBA, stMark, stNum, stPlain, stBadN}, k \in 0..MaxArgs :
        \E args \in [1..k -> ArgValues] :
            input = [op |-> "Query", stmt |-> stmt, args |-> args]

\* The most words between the braces of a record macro.
MaxWords == 4

\* The words of a record macro: names, quoted and half-quoted qualifiers,
\* a dotted reference, the keyword in both cases, and nothing.
Words ==
    {<< "t" >>, << "P" >>, << "'", "t", "'" >>, << "'", "t" >>, << "\"", "t", "\"" >>,
     << "t", ".", "*" >>, << "I", "N", "T", "O" >>, << "i", "n", "t", "o" >>, << >>}

\* The statement with one record macro holding body.
MacroStmt(body) == << "S", " ", "{" >> \o body \o << "}" >>

\* Statements whose macro qualifier is a list of dotted references.
stDotted == MacroStmt(<< "t", ".", "*", ",", " ", "t", ".", "n", ",", " ", "t", ".", "a",
                         " ", "I", "N", "T", "O", " ", "P" >>)
stDottedOne == MacroStmt(<< "t", ".", "n", " ", "I", "N", "T", "O", " ", "P" >>)

\* The characters of the short texts handed to parseRecords.
RecordAlphabet == {"{", "}", "P", " ", "'"}

\* parseRecords is handed one macro of at most MaxWords words, one of the
\* statements with dotted references or with two macros, or any text of at
\* most MaxText characters that holds an opening brace.
RecordsInput ==
    \/ \E k \in 1..MaxWords : \E words \in [1..k -> Words] :
          input = [op |-> "parseRecords", stmt |-> MacroStmt(Join(words, << " " >>))]
    \/ \E stmt \in {stDotted, stDottedOne, stPR} :
          input = [op |-> "parseRecords", stmt |-> stmt]
    \/ \E k \in 0..MaxText : \E stmt \in [1..k -> RecordAlphabet] :
          /\ indexOfRecordArgs(stmt) >= 0
          /\ input = [op |-> "parseRecords", stmt |-> stmt]

\* The most record macros of a statement handed to compileStatement.
MaxMacros == 3

\* The macros and the text around them.
Macros ==
    {<< "{", "P", "}" >>, << "{", "t", " ", "I", "N", "T", "O", " ", "P", "}" >>,
     << "{", "R", "}" >>, << "{", "r", " ", "I", "N", "T", "O", " ", "R", "}" >>}

Gaps == {<< >>, << ",", " " >>}

\* gaps[1], macros[1], gaps[2], ..., macros[n], gaps[n+1] from position k on.
RECURSIVE Interleave(_, _, _)
Interleave(gaps, macros, k) ==
    IF k > Len(macros) THEN gaps[k]
    ELSE gaps[k] \o macros[k] \o Interleave(gaps, macros, k + 1)

EntityLists == {<< Reflect(vpa) >>, << Reflect(vrc) >>, << Reflect(vpa), Reflect(vrc) >>}

\* compileStatement is handed a statement of at most MaxMacros macros and
\* the entities of a Query.
ExpandInput ==
    \E n \in 1..MaxMacros : \E macros \in [1..n -> Macros] :
        \E gaps \in [1..(n + 1) -> Gaps] : \E entities \in EntityLists :
            input = [op |-> "compileStatement",
                     stmt |-> << "S", " " >> \o Interleave(gaps, macros, 1),
                     entities |-> entities]

\* The most pieces of a prefix or of a field name handed to the alias
\* encoding.
MaxPieces == 2

\* Pieces of prefixes and field names: letters, underscores, and the text
\* of the separator whole or in part.
Pieces == {<< "t" >>, << "_" >>, << "_", "s", "f", "x" >>, AliasSeparator}

\* A field that collides is emitted for a macro with a prefix, and the
\* name of its result column is decoded.
AliasInput ==
    \E k \in 1..MaxPieces : \E l \in 1..MaxPieces :
        \E ps \in [1..k -> Pieces] : \E fs \in [1..l -> Pieces] :
            input = [op |-> "alias", prefix |-> Join(ps, << >>), field |-> Join(fs, << >>)]

\* The most fields of a reflected struct type.
MaxFields == 2

\* The db tags of the fields: none, a name, a name with the omitempty
\* option in either case, an unknown option, an option without a name, and
\* two options.
Tags ==
    {<< >>, << "i" >>, << "n" >>, << "n", "," >> \o omitempty,
     << "n", ",", "O", "M", "I", "T", "E", "M", "P", "T", "Y" >>,
     << "n", ",", "x" >>, << "," >> \o omitempty,
     << "n", "," >> \o omitempty \o << ",", "x" >>}

StructFields == {[Name |-> name, tag |-> tag] : name \in {<< "I", "D" >>, << "N" >>}, tag \in Tags}

ReflectInput ==
    \E k \in 0..MaxFields : \E fields \in [1..k -> StructFields] :
        input = [op |-> "Reflect", fields |-> fields]

InitPure ==
    /\ InitQuerier
    /\ InitServices
    /\ \/ NamesInput
       \/ NamedArgsInput
       \/ QueryArgsInput
       \/ RecordsInput
       \/ ReflectInput
       \/ ExpandInput
       \/ AliasInput
    /\ output = << >>

Querier == << hook, reflectCache, stmtCache, mem, slice, query, pc, call, firstExec >>

\* parseNames(stmt, offset)
ParseNames ==
    /\ input.op = "parseNames"
    /\ output = << >>
    /\ output' = << parseNames(input.stmt, input.offset) >>
    /\ UNCHANGED << Querier, input, Services >>

\* constructNamedArgs(arg, names)
ConstructNamedArgs ==
    /\ input.op = "constructNamedArgs"
    /\ output = << >>
    /\ output' = << constructNamedArgs(input.arg, input.names) >>
    /\ UNCHANGED << Querier, input, Services >>

\* Query.Query(tx, stmt, args...) up to the call of the execute plan.
QueryArgs ==
    /\ input.op = "Query"
    /\ output = << >>
    /\ output' = << queryPrelude(input.stmt, input.args) >>
    /\ UNCHANGED << Querier, input, Services >>

\* parseRecords(stmt, indexOfRecordArgs(stmt))
ParseRecords ==
    /\ input.op = "parseRecords"
    /\ output = << >>
    /\ output' = << parseRecords(input.stmt, indexOfRecordArgs(input.stmt)) >>
    /\ UNCHANGED << Querier, input, Services >>

\* compileStatement(stmt) of a Query with the given entities.
CompileStatement ==
    /\ input.op = "compileStatement"
    /\ output = << >>
    /\ output' = << compileStatement(input.stmt, input.entities) >>
    /\ UNCHANGED << Querier, input, Services >>

\* expandRecords emits the colliding field under the prefix, the database
\* names the column by the alias, and structMapping decodes that name.
DecodeAlias ==
    /\ input.op = "alias"
    /\ output = << >>
    /\ output' = << DecodeColumn(ColumnName(EmitField(input.prefix, input.field,
                                                      {input.field}))) >>
    /\ UNCHANGED << Querier, input, Services >>

\* Reflect(value) of a value of a struct type with the given fields.
ReflectStruct ==
    /\ input.op = "Reflect"
    /\ output = << >>
    /\ output' = << reflectFields(input.fields, 1, Empty) >>
    /\ UNCHANGED << Querier, input, Services >>

NextPure ==
    \/ ParseNames
    \/ ConstructNamedArgs
    \/ QueryArgs
    \/ ParseRecords
    \/ ReflectStruct
    \/ CompileStatement
    \/ DecodeAlias

SpecPure == InitPure /\ [][NextPure]_vars

(***************************************************************************)
(* The outer loops of parseNames and parseRecords, one iteration a step    *)
(***************************************************************************)

MaxScan == 4

ScanAlphabet == {":", "?", "a", " ", "{", "}"}

\* One iteration of the outer loop of parseNames that takes the index of
\* the next sigil for its position in the whole text.
stepNamesAbsolute(stmt, i) ==
    LET r == At(stmt, i)
    IN  IF r \notin prefixes THEN [i |-> i + 1, done |-> FALSE]
        ELSE IF r = "?" /\ i + 1 < Len(stmt) /\ isNameTerminator(At(stmt, i + 1))
        THEN [i |-> i + 1, done |-> FALSE]
        ELSE LET c == consumeName(stmt, r, i + 1, << >>)
                 index == indexOfNamedArgs(Slice(stmt, c.i, Len(stmt)))
             IN  IF c.err \/ c.i >= Len(stmt) \/ index = -1
                 THEN [i |-> c.i, done |-> TRUE]
                 ELSE [i |-> (index - 1) + 1, done |-> FALSE]

\* One iteration of the outer loop of parseNames at position i < len(stmt):
\* the position the next iteration starts at, or done when the function
\* returns or breaks out of the loop.
stepNames(stmt, i) ==
    LET r == At(stmt, i)
    IN  IF r \notin prefixes THEN [i |-> i + 1, done |-> FALSE]
        ELSE IF r = "?" /\ i + 1 < Len(stmt) /\ isNameTerminator(At(stmt, i + 1))
        THEN [i |-> i + 1, done |-> FALSE]
        ELSE LET c == consumeName(stmt, r, i + 1, << >>)
                 index == indexOfNamedArgs(Slice(stmt, c.i, Len(stmt)))
             IN  IF c.err \/ c.i >= Len(stmt) \/ index = -1
                 THEN [i |-> c.i, done |-> TRUE]
                 ELSE [i |-> c.i + (index - 1) + 1, done |-> FALSE]

\* The error parseRecords returns for the macro the inner loop consumed.
recordErr(c) ==
    LET parts == Split(TrimSpace(c.record), << " " >>)
        ok1 == Len(parts) = 1
        ok3 == Len(parts) = 3 /\ ToLower(parts[2]) = << "i", "n", "t", "o" >>
    IN  IF c.err THEN "unexpected struct name"
        ELSE IF ~(ok1 \/ ok3) THEN "unexpected record statement"
        ELSE IF c.dq % 2 # 0 \/ c.sq % 2 # 0 THEN "missing quote terminator"
        ELSE ""

\* One iteration of the outer loop of parseRecords at position i < len(stmt).
stepRecords(stmt, i) ==
    IF At(stmt, i) # "{" THEN [i |-> i, done |-> TRUE]
    ELSE LET c == consumeRecord(stmt, i + 1, << >>, 0, 0)
             index == indexOfRecordArgs(Slice(stmt, c.i, Len(stmt)))
         IN  IF recordErr(c) # "" \/ c.i >= Len(stmt) \/ index = -1
             THEN [i |-> c.i, done |-> TRUE]
             ELSE [i |-> (c.i + index - 1) + 1, done |-> FALSE]

\* A loop is entered at the offset its locate function returned.
InitLoops ==
    /\ InitQuerier
    /\ InitServices
    /\ \E k \in 1..MaxScan : \E stmt \in [1..k -> ScanAlphabet] :
         \/ /\ indexOfNamedArgs(stmt) >= 0
            /\ input = [op |-> "parseNames", stmt |-> stmt]
            /\ output = << [i |-> indexOfNamedArgs(stmt), done |-> FALSE] >>
         \/ /\ indexOfRecordArgs(stmt) >= 0
            /\ input = [op |-> "parseRecords", stmt |-> stmt]
            /\ output = << [i |-> indexOfRecordArgs(stmt), done |-> FALSE] >>

\* The loop test and one iteration of parseNames.
NamesIteration ==
    /\ input.op = "parseNames"
    /\ ~output[1].done
    /\ output' = IF output[1].i >= Len(input.stmt)
                 THEN << [i |-> output[1].i, done |-> TRUE] >>
                 ELSE << stepNames(input.stmt, output[1].i) >>
    /\ UNCHANGED << Querier, input, Services >>

\* The loop test and one iteration of parseRecords.
RecordsIteration ==
    /\ input.op = "parseRecords"
    /\ ~output[1].done
    /\ output' = IF output[1].i >= Len(input.stmt)
                 THEN << [i |-> output[1].i, done |-> TRUE] >>
                 ELSE << stepRecords(input.stmt, output[1].i) >>
    /\ UNCHANGED << Querier, input, Services >>

NextLoops ==
    \/ NamesIteration
    \/ RecordsIteration

\* A function that is called runs on.
SpecLoops == InitLoops /\ [][NextLoops]_vars /\ WF_vars(NextLoops)

(***************************************************************************)
(* db: the transaction builder                                             *)
(***************************************************************************)

MaxStaged == 2

MaxAttempts == 2

\* The functions a caller stages.
Fns == {"f", "g"}

Core == << hook, reflectCache, stmtCache, mem, slice, query, pc, call, firstExec,
           input, output >>

Event(ev, k, runnable, res) == [ev |-> ev, k |-> k, fn |-> runnable, res |-> res]

\* txnBuilder.Stage
stage(t, runnable) == [t EXCEPT !.runnables = Append(@, runnable)]

\* The closure of Commit up to the first staged function: the context is
\* consulted, then the transaction is begun.
beginAttempt(t, begun) ==
    LET a == [t EXCEPT !.attempts = @ + 1, !.log = << >>, !.next = 0,
                       !.cancelled = (t.ctx = "cancelled")]
    IN  IF t.ctx = "cancelled" THEN [a EXCEPT !.pc = "failed", !.err = "context"]
        ELSE IF ~begun THEN [a EXCEPT !.pc = "failed", !.err = "begin"]
        ELSE [a EXCEPT !.pc = "running", !.next = 1,
                       !.log = << Event("begin", Len(t.runnables), "", "") >>]

\* The loop body of Commit going on to the next function after an error.
runFnKeepGoing(t, res) ==
    [t EXCEPT !.log = Append(@, Event("run", t.next, t.runnables[t.next], res)),
              !.next = @ + 1]

\* The loop body of Commit: the next staged function runs in the
\* transaction, and its error rolls the transaction back and ends the
\* attempt.
runFn(t, res) ==
    LET ran == Append(t.log, Event("run", t.next, t.runnables[t.next], res))
    IN  IF res # "nil"
        THEN [t EXCEPT !.log = Append(ran, Event("rollback", 0, "", "")),
                       !.pc = "failed", !.err = res]
        ELSE [t EXCEPT !.log = ran, !.next = @ + 1]

\* The end of the closure: rawTx.Commit().
commitTx(t, ok) ==
    IF ok THEN [t EXCEPT !.log = Append(@, Event("commit", 0, "", "")),
                         !.pc = "idle", !.err = "nil"]
    ELSE [t EXCEPT !.pc = "failed", !.err = "commit"]

\* withRetry after a failed attempt: a retryable error starts the closure
\* again, any other is returned to the caller of Commit.
withRetry(t, retryable) ==
    IF retryable /\ t.attempts < MaxAttempts THEN [t EXCEPT !.pc = "attempt"]
    ELSE [t EXCEPT !.pc = "idle"]

Stage(runnable) ==
    /\ txn.pc = "idle"
    /\ Len(txn.runnables) < MaxStaged
    /\ txn' = stage(txn, runnable)
    /\ UNCHANGED << Core, schema, engine >>

\* The caller's context is cancelled, at any moment.
Cancel ==
    /\ txn.ctx = "live"
    /\ txn' = [txn EXCEPT !.ctx = "cancelled"]
    /\ UNCHANGED << Core, schema, engine >>

\* Commit is called: withRetry is entered.
Commit ==
    /\ txn.pc = "idle"
    /\ txn' = [txn EXCEPT !.pc = "attempt", !.attempts = 0, !.err = "none"]
    /\ UNCHANGED << Core, schema, engine >>

BeginAttempt ==
    /\ txn.pc = "attempt"
    /\ \E begun \in BOOLEAN : txn' = beginAttempt(txn, begun)
    /\ UNCHANGED << Core, schema, engine >>

RunFn ==
    /\ txn.pc = "running"
    /\ txn.next <= Len(txn.runnables)
    /\ \E res \in {"nil", "err"} : txn' = runFn(txn, res)
    /\ UNCHANGED << Core, schema, engine >>

CommitTx ==
    /\ txn.pc = "running"
    /\ txn.next > Len(txn.runnables)
    /\ \E ok \in BOOLEAN : txn' = commitTx(txn, ok)
    /\ UNCHANGED << Core, schema, engine >>

WithRetry ==
    /\ txn.pc = "failed"
    /\ \E retryable \in BOOLEAN : txn' = withRetry(txn, retryable)
    /\ UNCHANGED << Core, schema, engine >>

NextTxn ==
    \/ \E runnable \in Fns : Stage(runnable)
    \/ Cancel
    \/ Commit
    \/ BeginAttempt
    \/ RunFn
    \/ CommitTx
    \/ WithRetry

SpecTxn == Init /\ [][NextTxn]_vars

(***************************************************************************)
(* schema: Schema.Ensure                                                   *)
(***************************************************************************)

MaxPatches == 3

Ran(ev, k) == [ev |-> ev, k |-> k]

\* Where a database call of Ensure fails: the step, and the patch it is at.
NoFailure == [step |-> "none", k |-> 0]

Failures ==
    {NoFailure} \cup
    [step : {"table", "select", "commit"}, k : {0}] \cup
    [step : {"context", "hook", "patch", "insert"}, k : 1..MaxPatches]

\* checkSchemaVersionsHaveNoHoles: TRUE when it returns nil.
checkSchemaVersionsHaveNoHoles(versions) ==
    \A i \in 1..(Len(versions) - 1) : versions[i + 1] = versions[i] + 1

\* queryCurrentVersion on the rows of the schema table in version order;
\* -1 goes with an error.
queryCurrentVersion(versions) ==
    IF Len(versions) > 0
    THEN IF checkSchemaVersionsHaveNoHoles(versions) THEN versions[Len(versions)] ELSE -1
    ELSE 0

\* The loop of ensurePatchsAreApplied over patches[current:], on the
\* transaction's view d of the database.
RECURSIVE applyPatches(_, _, _, _)
applyPatches(d, current, patches, failure) ==
    IF current >= patches THEN [err |-> "nil", db |-> d]
    ELSE IF failure.k = current + 1 /\ failure.step \in {"context", "hook", "patch"}
    THEN [err |-> failure.step, db |-> d]
    ELSE LET patched == [d EXCEPT !.ran = Append(@, Ran("patch", current + 1))]
         IN  IF failure.k = current + 1 /\ failure.step = "insert"
             THEN [err |-> "insert", db |-> patched]
             ELSE applyPatches(
                      [patched EXCEPT !.versions = Append(@, current + 1),
                                      !.ran = Append(@, Ran("version", current + 1))],
                      current + 1, patches, failure)

\* ensurePatchsAreApplied running every patch whatever the recorded version.
ensurePatchsAreAppliedFromStart(d, current, patches, failure) ==
    applyPatches(d, 0, patches, failure)

\* ensurePatchsAreApplied
ensurePatchsAreApplied(d, current, patches, failure) ==
    IF current > patches THEN [err |-> "recent", db |-> d]
    ELSE IF patches = 0 THEN [err |-> "nil", db |-> d]
    ELSE applyPatches(d, current, patches, failure)

\* Schema.Ensure: the closure runs in one transaction of State.Run, and the
\* database keeps what it did only when the closure and the commit succeed.
ensure(s, failure) ==
    LET called == [s EXCEPT !.before = s.patches, !.prior = s.ran,
                            !.changeSet = [Current |-> -1, Applied |-> -1]]
        d == [versions |-> s.versions, ran |-> s.ran]
        current == IF failure.step = "select" THEN -1 ELSE queryCurrentVersion(s.versions)
    IN  IF failure.step = "table" THEN [called EXCEPT !.err = "table"]
        ELSE IF current = -1 THEN [called EXCEPT !.err = "versions"]
        ELSE \* one evaluation of the loop, bound to r
             LET r == ensurePatchsAreApplied(d, current, s.patches, failure)
                 applied == queryCurrentVersion(r.db.versions)
             IN  IF r.err # "nil"
                 THEN [called EXCEPT !.err = r.err, !.changeSet.Current = current]
                 ELSE IF applied = -1
                 THEN [called EXCEPT !.err = "versions", !.changeSet.Current = current]
                 ELSE IF failure.step = "commit"
                 THEN [called EXCEPT !.err = "commit",
                                     !.changeSet = [Current |-> current, Applied |-> applied]]
                 ELSE [called EXCEPT !.err = "nil", !.table = TRUE,
                                     !.versions = r.db.versions, !.ran = r.db.ran,
                                     !.changeSet = [Current |-> current, Applied |-> applied]]

\* New: a Schema holding the first n patches of the series, on the same
\* database.
New(n) ==
    /\ n # schema.patches
    /\ schema' = [schema EXCEPT !.patches = n]
    /\ UNCHANGED << Core, txn, engine >>

\* Schema.Add
Add ==
    /\ schema.patches < MaxPatches
    /\ schema' = [schema EXCEPT !.patches = @ + 1]
    /\ UNCHANGED << Core, txn, engine >>

Ensure ==
    /\ \E failure \in Failures : schema' = ensure(schema, failure)
    /\ UNCHANGED << Core, txn, engine >>

NextSchema ==
    \/ \E n \in 0..MaxPatches : New(n)
    \/ Add
    \/ Ensure

SpecSchema == Init /\ [][NextSchema]_vars

(***************************************************************************)
(* state: State and StateEngine                                            *)
(***************************************************************************)

MaxCalls == 3

\* The loop of StateEngine.StartUp over the managers k.., of which the one
\* at failAt returns an error (0: none does).
RECURSIVE startManagers(_, _, _)
startManagers(e, k, failAt) ==
    IF k > Len(e.managers) THEN [e EXCEPT !.last = "nil"]
    ELSE LET m == e.managers[k]
             called == [e EXCEPT !.startUps[m] = @ + 1,
                                 !.returned[m] = IF k = failAt THEN "err" ELSE "nil"]
         IN  IF k = failAt THEN [called EXCEPT !.last = "err"]
             ELSE startManagers(called, k + 1, failAt)

\* StateEngine.StartUp asking the managers on every call.
engineStartUpEveryCall(e, failAt) ==
    startManagers([e EXCEPT !.started = TRUE], 1, failAt)

\* StateEngine.StartUp, under the engine's mutex.
engineStartUp(e, failAt) ==
    IF e.started THEN [e EXCEPT !.last = "nil"]
    ELSE startManagers([e EXCEPT !.started = TRUE], 1, failAt)

\* State.StartUp, under the State's mutex.
stateStartUp(e, failAt) ==
    IF e.stateStarted THEN [e EXCEPT !.last = "nil"]
    ELSE engineStartUp([e EXCEPT !.stateStarted = TRUE], failAt)

\* StateEngine.Stop, under the engine's mutex.
engineStop(e) ==
    IF e.stopped THEN e
    ELSE [e EXCEPT !.stopped = TRUE,
                   !.stops = [m \in ManagerNames |->
                                IF \E k \in 1..Len(e.managers) : e.managers[k] = m
                                THEN e.stops[m] + 1 ELSE e.stops[m]]]

\* StateEngine.AddManager
AddManager(m) ==
    /\ \A k \in 1..Len(engine.managers) : engine.managers[k] # m
    /\ engine' = [engine EXCEPT !.managers = Append(@, m)]
    /\ UNCHANGED << Core, txn, schema >>

\* State.StartUp(ctx)
StateStartUp ==
    /\ engine.calls < MaxCalls
    /\ \E failAt \in 0..Len(engine.managers) :
         engine' = stateStartUp([engine EXCEPT !.calls = @ + 1], failAt)
    /\ UNCHANGED << Core, txn, schema >>

\* StateEngine.StartUp(ctx) on the engine State.StateEngine() returns.
EngineStartUp ==
    /\ engine.calls < MaxCalls
    /\ \E failAt \in 0..Len(engine.managers) :
         engine' = engineStartUp([engine EXCEPT !.calls = @ + 1], failAt)
    /\ UNCHANGED << Core, txn, schema >>

\* StateEngine.Stop(), also the end of State.Stop.
EngineStop ==
    /\ engine' = engineStop(engine)
    /\ UNCHANGED << Core, txn, schema >>

NextEngine ==
    \/ \E m \in ManagerNames : AddManager(m)
    \/ StateStartUp
    \/ EngineStartUp
    \/ EngineStop

SpecEngine == Init /\ [][NextEngine]_vars

(***************************************************************************)
(* Properties                                                              *)
(***************************************************************************)

InCall(t) == pc[t] \in {"exec", "scan", "done"}

\* The record prefixes and the column names of the modelled statements and
\* record types.
MacroPrefixes == {<< "t" >>, << "r" >>}
AllFields == FieldsOfType("P") \cup FieldsOfType("R")

\* The number of the entities that have the field.
Holders(entities, f) == Cardinality({k \in 1..Len(entities) : f \in Fields(entities[k])})

\* C1: when a raw text with a record macro is passed to Query again after a
\* call with the same text succeeded (through Queries of one Querier built
\* by ForOne or ForMany), the second call does not parse or expand the
\* macros: it takes the expanded text from the statement cache, and the text
\* it hands to the hook and to the database is the text the first call
\* executed.
C1_SecondCallServedFromCache ==
    \A t \in Threads :
        (pc[t] \in {"exec", "scan"} /\ call[t].prior) =>
            /\ ~call[t].parsed
            /\ call[t].hit
            /\ call[t].compiled = firstExec[call[t].stmt]

\* The expression the expander is to emit for a field of a record binding.
ExpectedExpr(prefix, f, entities) ==
    IF prefix # << >> /\ Holders(entities, f) >= 2
      THEN prefix \o << "." >> \o f \o << " ", "A", "S", " " >> \o Alias(prefix, f)
    ELSE IF prefix # << >> THEN prefix \o << "." >> \o f
    ELSE f

\* The column list for a binding: one expression per field of the first
\* entity of that name, in ascending field-name order, joined by ", ".
ExpectedList(b, entities) ==
    LET e == entities[CHOOSE i \in 1..Len(entities) :
                        /\ entities[i].name = b.name
                        /\ \A j \in 1..(i - 1) : entities[j].name # b.name]
        names == SortStrings(Fields(e))
    IN Join([i \in 1..Len(names) |-> ExpectedExpr(b.prefix, names[i], entities)], << ",", " " >>)

\* The raw text with the spans of bindings 1..k replaced by their lists,
\* the last span first.
RECURSIVE ExpectedText(_, _, _, _)
ExpectedText(raw, bindings, k, entities) ==
    IF k = 0 THEN raw
    ELSE ExpectedText(Slice(raw, 0, bindings[k].start) \o ExpectedList(bindings[k], entities)
                        \o Slice(raw, bindings[k].end, Len(raw)),
                      bindings, k - 1, entities)

Expanded(t) == call[t].parsed /\ call[t].compiled # << >>

HasAlias(text, prefix, f) ==
    LET pat == << " ", "A", "S", " " >> \o Alias(prefix, f)
    IN \E i \in 0..(Len(text) - Len(pat)) :
          /\ Slice(text, i, i + Len(pat)) = pat
          /\ i + Len(pat) < Len(text) => At(text, i + Len(pat)) \in {",", " "}

\* C3: in every statement a Query executes, a column carries an alias
\* AS _pfx_<prefix>_sfx_<field> only if the field occurs in at least two of
\* the entities bound into that Query.
C3_AliasOnlyOnCollision ==
    \A t \in Threads : \A i \in 1..Len(call[t].executed) :
        \A prefix \in MacroPrefixes, f \in AllFields :
            HasAlias(call[t].executed[i], prefix, f) =>
                Holders(planEntities(query[t]), f) >= 2

\* The column name is the alias encoding of (prefix, f).
IsAliasOf(column, prefix, f) == column = Alias(prefix, f)

AliasEncoded(column) == \E prefix \in MacroPrefixes \cup {<< "q" >>}, f \in AllFields \cup {<< "z" >>} :
                            IsAliasOf(column, prefix, f)

\* The entities a column may bind to, as <<index, field>>.
Candidates(column, entities, bindings) ==
    IF AliasEncoded(column)
    THEN {<< k, f >> \in (1..Len(entities)) \X AllFields :
            /\ f \in Fields(entities[k])
            /\ \E prefix \in MacroPrefixes \cup {<< "q" >>} :
                 /\ IsAliasOf(column, prefix, f)
                 /\ \E b \in 1..Len(bindings) :
                      bindings[b].name = entities[k].name /\ bindings[b].prefix = prefix}
    ELSE {<< k, f >> \in (1..Len(entities)) \X {column} :
            /\ f \in Fields(entities[k])
            /\ \A j \in 1..(k - 1) : column \notin Fields(entities[j])}

\* structMapping ran in the call of t.
Mapped(t) ==
    /\ pc[t] = "done"
    /\ call[t].executed # << >>
    /\ call[t].err \notin {"query error", "columns error"}
    /\ \/ query[t].plan = "struct"
       \/ query[t].plan = "slice" /\ call[t].nrows > 0

\* C4: structMapping binds an alias-encoded column only to an entity that
\* has the decoded field and a record binding with the decoded prefix, a
\* bare column to the first entity that has the field, and fails with a
\* missing-destination error, scanning no row, when a column has no such
\* entity.
C4_StructMappingResolves ==
    \A t \in Threads :
        Mapped(t) =>
            LET ents == planEntities(query[t])
                cols == call[t].columns
                cand(i) == Candidates(cols[i], ents, call[t].fields)
            IN IF \E i \in 1..Len(cols) : cand(i) = {}
               THEN call[t].err = "missing destination" /\ mem = Empty
               ELSE /\ Len(call[t].columnar) = Len(cols)
                    /\ \A i \in 1..Len(cols) :
                         \E c \in cand(i) : call[t].columnar[i] = << ents[c[1]].inst, c[2] >>

C4_Witness ==
    \E t \in Threads :
        /\ Mapped(t)
        /\ call[t].err = ""
        /\ \E i \in 1..Len(call[t].columns) : call[t].columns[i] = Alias(<< "r" >>, fn)
        /\ << "rc", fn >> \in DOMAIN mem

\* C5: the reflection cache shares the shape of a type, not field
\* locations: a Query call writes the row into the variables its Query was
\* built with, and leaves other variables of the same type unchanged.
C5_RowWrittenToBoundInstance ==
    \A t \in Threads :
        (pc[t] = "done" /\ query[t].plan = "struct") =>
            \A loc \in DOMAIN mem :
                \E i \in 1..Len(query[t].values) : query[t].values[i].id = loc[1]

PreExecutionErrors ==
    {"unexpected named argument", "expected arguments", "name missing", "not supported",
     "unexpected struct name", "unexpected record statement", "missing quote terminator",
     "no entity found"}

\* C6: a Query call that fails before execution (malformed bind token, bind
\* tokens without an extra argument, bind name missing from the source,
\* malformed record macro, record macro naming an unbound type) executes no
\* statement and does not invoke the hook.
C6_FailedBeforeExecutionNoDatabaseCall ==
    \A t \in Threads :
        (InCall(t) /\ call[t].err \in PreExecutionErrors) =>
            call[t].executed = << >> /\ call[t].hooked = << >>

C6_Witness ==
    \E t \in Threads :
        /\ pc[t] = "done"
        /\ query[t].hook
        /\ call[t].err = "no entity found"
        /\ call[t].stmt = stQ

\* Two of the values have different entity kinds.
KindsDiffer(values) ==
    \E i, j \in 1..Len(values) : KindOfType(values[i].type) # KindOfType(values[j].type)

\* C7: ForOne called with more than one value returns a kind-mismatch
\* error whenever two of the values have different entity kinds, whatever
\* their positions, and returns a Query only when all values share one kind.
C7_ForOneRejectsMixedKinds ==
    \A t \in Threads :
        Len(query[t].values) > 1 =>
            /\ KindsDiffer(query[t].values) => query[t].err = "kind mismatch"
            /\ query[t].plan # "none" => ~KindsDiffer(query[t].values)

KindMismatchErrors == {"kind mismatch", "mixed entities not supported", "not supported"}

\* C8: every kind-mismatch condition is reported before any statement is
\* executed: no Query call returns a kind-mismatch error after the database
\* was called.
C8_KindMismatchBeforeExecution ==
    \A t \in Threads :
        (InCall(t) /\ call[t].err \in KindMismatchErrors) => call[t].executed = << >>

\* The call of t missed in the statement cache and has inserted its text.
Inserted(t) ==
    /\ pc[t] = "done"
    /\ query[t].plan = "struct"
    /\ ~call[t].hit
    /\ call[t].err = ""
    /\ call[t].stmt # call[t].compiled

\* C9: the check-then-insert of the statement cache is one critical
\* section: between the missed lookup of a Query call and its insert no
\* other caller looks up or inserts in the same statement cache.
C9_CheckThenInsertAtomic ==
    \A t \in Threads : Inserted(t) => ~call[t].raced

\* C10: the statement cache is append-only: a raw statement once present
\* stays present, with the expanded text and bindings first stored.
C10_StatementCacheAppendOnly ==
    [][\A st \in DOMAIN stmtCache :
          st \in DOMAIN stmtCache' /\ stmtCache'[st] = stmtCache[st]]_vars

\* C11: whenever Query.Query has returned, normally or with an error or a
\* panic of the scan, the result cursor its execution obtained is closed:
\* no call ends with an open cursor.
C11_CursorClosedOnReturn ==
    \A t \in Threads : pc[t] = "done" => call[t].rows # "open"

\* A call on a collection Query that ran its statement, got a cursor and
\* failed while scanning a row.
C11_Witness ==
    \E t \in Threads :
        /\ pc[t] = "done"
        /\ query[t].plan = "slice"
        /\ call[t].rows = "closed"
        /\ call[t].executed # << >>
        /\ call[t].err = "scan error"

\* C12 as stated: once a hook is configured on the Querier, every execution
\* of a statement is preceded by one invocation of the hook with the text
\* that is executed.
C12_ConfiguredHookPrecedesExecution ==
    [][\A t \in Threads :
          (hook /\ pc[t] = "exec" /\ pc'[t] # "exec") =>
              /\ call'[t].executed = Append(call[t].executed, call[t].compiled)
              /\ call'[t].hooked = Append(call[t].hooked, call[t].compiled)]_vars

\* C12 amended: a Query built while a hook was configured invokes that hook
\* exactly once before each of its executions, with exactly the final text
\* that is executed, and never without executing; a Query built before any
\* hook was configured never invokes one.
C12_QueryHookPrecedesExecution ==
    \A t \in Threads :
        InCall(t) =>
            /\ \A i \in 1..Len(call[t].executed) : call[t].executed[i] = call[t].compiled
            /\ call[t].hooked = IF query[t].hook THEN call[t].executed ELSE << >>

\* A Query holding a hook has executed a text that expansion changed.
C12_Witness ==
    \E t \in Threads :
        /\ InCall(t)
        /\ query[t].hook
        /\ call[t].executed # << >>
        /\ call[t].compiled # call[t].stmt
        /\ call[t].hooked = << call[t].compiled >>

\* C13: whenever parseNames succeeds, the bindings it returns are in
\* ascending order of name, whatever the order of the placeholders in the
\* text.
C13_ParseNamesSortedByName ==
    (input.op = "parseNames" /\ output # << >> /\ ~output[1].err) =>
        \A i, j \in 1..Len(output[1].names) :
            i < j => ~StrLess(output[1].names[j].name, output[1].names[i].name)

\* A text whose placeholders occur in descending order of name.
C13_Witness ==
    /\ input.op = "parseNames"
    /\ input.stmt = << ":", "b", " ", ":", "a" >>
    /\ output = << [err |-> FALSE,
                    names |-> << [prefix |-> ":", name |-> << "a" >>],
                                 [prefix |-> ":", name |-> << "b" >>] >>] >>

\* The only sigils of stmt are question marks not followed by a digit.
OnlyBareMarks(stmt) ==
    /\ \E i \in 0..(Len(stmt) - 1) : At(stmt, i) = "?"
    /\ \A i \in 0..(Len(stmt) - 1) :
          At(stmt, i) \in prefixes =>
              /\ At(stmt, i) = "?"
              /\ i + 1 < Len(stmt) => ~IsDigit(At(stmt, i + 1))

\* C14: a question mark not followed by a digit (followed by a terminator,
\* by any other character or by the end of the text) is a bare positional
\* placeholder: parseNames does not fail on it and adds no binding for it.
C14_BareMarkIsNoBinding ==
    (input.op = "parseNames" /\ output # << >> /\ OnlyBareMarks(input.stmt)) =>
        output[1] = [err |-> FALSE, names |-> << >>]

\* C15: constructNamedArgs returns one (name, value) pair per binding, in
\* the order of the bindings, each value the one the map or tagged record
\* holds under that name; a name the source does not hold gives a lookup
\* error and no pairs; an array or slice source gives a not-supported
\* error.
C15_NamedArgsFollowBindings ==
    (input.op = "constructNamedArgs" /\ output # << >>) =>
        LET arg == input.arg
            names == input.names
            res == output[1]
        IN /\ arg.kind = "slice" => res = [err |-> "not supported", inputs |-> << >>]
           /\ arg.kind \in {"map", "struct"} =>
                IF \A k \in 1..Len(names) : names[k].name \in DOMAIN arg.vals
                THEN /\ res.err = ""
                     /\ Len(res.inputs) = Len(names)
                     /\ \A k \in 1..Len(names) :
                          res.inputs[k] = [name |-> names[k].name,
                                           value |-> arg.vals[names[k].name]]
                ELSE res = [err |-> "name missing", inputs |-> << >>]

\* A tagged record asked for two of its columns, name before age.
C15_Witness ==
    /\ input.op = "constructNamedArgs"
    /\ input.arg = srcBothStruct
    /\ output = << [err |-> "",
                    inputs |-> << [name |-> fn, value |-> "fred"],
                                  [name |-> fa, value |-> "42"] >>] >>

\* The bind tokens the scan of stmt finds.
TokensFound(stmt) == parseNames(stmt, NamesOffset(stmt)).names

\* The named argument of binding b taken from source.
NamedArg(source, b) == [name |-> b.name, value |-> source.vals[b.name]]

\* C16: when bind tokens are found and an extra argument is given, a Query
\* call that goes on to its plan has dropped the first extra argument and
\* forwards the remaining ones in their order followed by the named
\* arguments in binding order; when no bind token is found it forwards all
\* extra arguments unchanged.
C16_ForwardedArguments ==
    (input.op = "Query" /\ output # << >> /\ output[1].err # "unexpected named argument") =>
        LET names == TokensFound(input.stmt)
            args == input.args
            res == output[1]
        IN /\ (names # << >> /\ args # << >> /\ res.err = "") =>
                res.args = Tail(args) \o [k \in 1..Len(names) |-> NamedArg(args[1], names[k])]
           /\ names = << >> => res = [err |-> "", args |-> args]

\* Two names in descending order, a source and two positional values.
C16_Witness ==
    /\ input.op = "Query"
    /\ input.stmt = stBA
    /\ input.args = << srcBothMap, posArg, posOther >>
    /\ output = << [err |-> "",
                    args |-> << posArg, posOther,
                                [name |-> fa, value |-> "42"],
                                [name |-> fn, value |-> "fred"] >>] >>

\* stmt holds one record macro, which ends the text.
IsSingleMacro(stmt) ==
    /\ indexOfRecordArgs(stmt) = 2
    /\ IndexRune(stmt, "}") = Len(stmt) - 1
    /\ IndexRune(Slice(stmt, 3, Len(stmt)), "{") = -1

\* The text between the braces of a single macro.
MacroBody(stmt) == Slice(stmt, 3, Len(stmt) - 1)

\* How often the character c occurs in s.
Occurrences(s, c) == Cardinality({i \in 1..Len(s) : s[i] = c})

\* The trimmed body split on single spaces has one token, or three with
\* INTO in the middle.
GoodTokens(body) ==
    LET toks == Split(TrimSpace(body), << " " >>)
    IN \/ Len(toks) = 1
       \/ Len(toks) = 3 /\ ToLower(toks[2]) = << "i", "n", "t", "o" >>

EvenQuotes(body) == \A q \in {"'", "\""} : Occurrences(body, q) % 2 = 0

\* C17: parseRecords accepts a macro exactly when its trimmed content split
\* on single spaces has one token, or three tokens with INTO (in any case)
\* in the middle, and every quote character occurs an even number of
\* times; any other token count is a parse error, and odd quote parity is
\* the missing-quote-terminator error.
C17_RecordGrammar ==
    (input.op = "parseRecords" /\ output # << >> /\ IsSingleMacro(input.stmt)) =>
        LET body == MacroBody(input.stmt)
            res == output[1]
        IN /\ res.err = "" <=> (GoodTokens(body) /\ EvenQuotes(body))
           /\ ~GoodTokens(body) => res.err = "unexpected record statement"
           /\ (GoodTokens(body) /\ ~EvenQuotes(body)) => res.err = "missing quote terminator"

\* C18: for a macro whose qualifier is a comma-joined list of dotted
\* references parseRecords succeeds and returns a binding whose prefix is
\* the prefix of the first reference, whose fields hold the referenced
\* columns with "*" as the wildcard marker, and whose wildcard flag is set
\* when "*" is among them.
C18_DottedListBinding ==
    (input.op = "parseRecords" /\ output # << >> /\ input.stmt = stDotted) =>
        /\ output[1].err = ""
        /\ Len(output[1].records) = 1
        /\ LET b == output[1].records[1]
           IN /\ b.name = Person
              /\ b.prefix = << "t" >>
              /\ {"fields", "wildcard"} \subseteq DOMAIN b
              /\ b.fields = {<< "*" >>, fn, fa}
              /\ b.wildcard

\* The fields of the element that the columns of the call are scanned into.
ScannedFields(t) == {d[2] : d \in Range(call'[t].columnar)}

\* C19: a successful call of a Query built by ForMany appends one element
\* per returned row to the destination collection, in row order, each
\* holding the values of its own row; the elements the collection held and
\* those appended for earlier rows are not changed by later rows.
C19_ForManyAppendsRowCopies ==
    [][\A t \in Threads :
          (/\ pc[t] = "scan" /\ pc'[t] = "done"
           /\ query[t].plan = "slice" /\ call'[t].err = "") =>
              /\ Len(slice') = Len(slice) + call[t].nrows
              /\ SubSeq(slice', 1, Len(slice)) = slice
              /\ \A r \in 1..call[t].nrows :
                    \A f \in ScannedFields(t) : slice'[Len(slice) + r][f] = r]_vars

\* A call that returned two rows left two different elements, the first
\* holding the first row.
C19_Witness ==
    \E t \in Threads :
        /\ pc[t] = "done"
        /\ query[t].plan = "slice"
        /\ call[t].err = ""
        /\ call[t].nrows = 2
        /\ Len(slice) = 2
        /\ slice[1] # slice[2]
        /\ \A d \in Range(call[t].columnar) : slice[1][d[2]] = 1 /\ slice[2][d[2]] = 2

\* The name a tag declares: the text before its first comma.
DeclaredName(tag) == IF tag = << >> THEN << >> ELSE Split(tag, << "," >>)[1]

\* A tag is absent, a name, or a name and the omitempty option.
WellFormed(tag) ==
    \/ tag = << >>
    \/ Len(Split(tag, << "," >>)) = 1
    \/ Len(Split(tag, << "," >>)) = 2 /\ ToLower(Split(tag, << "," >>)[2]) = omitempty

\* The logical column name of a field.
LogicalName(field) ==
    IF DeclaredName(field.tag) # << >> THEN DeclaredName(field.tag) ELSE ToLower(field.Name)

\* C20: Reflect maps every field, tagged or not, to the name its tag
\* declares, else to its lower-cased field name; it fails only for a
\* malformed tag and then yields no field map.
C20_ReflectNamesEveryField ==
    (input.op = "Reflect" /\ output # << >>) =>
        LET fields == input.fields
            res == output[1]
        IN /\ (\A k \in 1..Len(fields) : WellFormed(fields[k].tag)) =>
                /\ res.err = ""
                /\ DOMAIN res.Fields = {LogicalName(fields[k]) : k \in 1..Len(fields)}
                /\ \A k \in 1..Len(fields) :
                      \E j \in k..Len(fields) :
                          /\ LogicalName(fields[j]) = LogicalName(fields[k])
                          /\ res.Fields[LogicalName(fields[k])].Name = fields[j].Name
           /\ res.err # "" => res.Fields = Empty


\* C21: within one Commit attempt the staged functions run in the order they
\* were staged, inside one transaction; the first error rolls the transaction
\* back, no later function runs and nothing is committed; the transaction is
\* committed only after every staged function returned nil; an attempt that
\* finds the context cancelled begins no transaction and runs no function;
\* Stage begins no transaction and runs no function.
AttemptInOrder(log, runnables) ==
    \/ log = << >>
    \/ /\ log[1].ev = "begin"
       /\ \A i \in 2..Len(log) :
            /\ log[i].ev # "begin"
            /\ log[i].ev = "run" =>
                 /\ log[i].k = i - 1
                 /\ i - 1 <= log[1].k
                 /\ log[i].fn = runnables[i - 1]
                 /\ \A j \in 2..(i - 1) : log[j].ev = "run" /\ log[j].res = "nil"
                 /\ log[i].res # "nil" =>
                      i + 1 = Len(log) /\ log[i + 1].ev = "rollback"
            /\ log[i].ev = "rollback" =>
                 /\ i = Len(log)
                 /\ log[i - 1].ev = "run" /\ log[i - 1].res # "nil"
            /\ log[i].ev = "commit" =>
                 /\ i = Len(log)
                 /\ i = log[1].k + 2
                 /\ \A j \in 2..(i - 1) : log[j].ev = "run" /\ log[j].res = "nil"

C21_CommitRunsStagedInOrder ==
    /\ [](/\ AttemptInOrder(txn.log, txn.runnables)
          /\ txn.cancelled => txn.log = << >>)
    /\ [][(\E runnable \in Fns : txn' = stage(txn, runnable)) =>
            txn'.log = txn.log /\ txn'.attempts = txn.attempts /\ txn'.pc = txn.pc]_vars

C21_Witness ==
    /\ Len(txn.log) = 4
    /\ txn.log[2].res = "nil"
    /\ txn.log[3].res = "err"
    /\ txn.log[4].ev = "rollback"
    /\ txn.attempts = 2

\* C22: an Ensure that finds the recorded version c, without holes and not
\* above the number N of patches, applies exactly the patches c+1..N in index
\* order and records version k right after patch k; across successful Ensure
\* calls each patch is applied at most once and the recorded versions are
\* exactly 1..N; the ChangeSet returned has Current = c and Applied = N; a
\* second Ensure applies no patch.
PatchRun(c, n) ==
    [i \in 1..(2 * (n - c)) |->
        IF i % 2 = 1 THEN Ran("patch", c + (i + 1) \div 2)
        ELSE Ran("version", c + i \div 2)]

C22_EnsureAppliesMissingPatchesOnce ==
    /\ schema.ran = PatchRun(0, Len(schema.versions))
    /\ schema.versions = [k \in 1..Len(schema.versions) |-> k]
    /\ schema.err = "nil" =>
         /\ schema.changeSet.Current = Len(schema.prior) \div 2
         /\ schema.changeSet.Applied = schema.before
         /\ schema.ran = schema.prior \o PatchRun(schema.changeSet.Current, schema.before)
         /\ Len(schema.versions) = schema.before

C22_Witness ==
    /\ schema.err = "nil"
    /\ schema.changeSet = [Current |-> 1, Applied |-> 3]
    /\ Len(schema.ran) = 6

\* C23: every binding of a successful parseRecords has
\* 0 <= start < end <= len(text), text[start] = "{" and text[end-1] = "}",
\* and the bindings come left to right without overlap.
C23_BindingsAreBracedSpans ==
    (input.op = "parseRecords" /\ output # << >> /\ output[1].err = "") =>
        LET rs == output[1].records
        IN /\ \A i \in 1..Len(rs) :
                /\ 0 <= rs[i].start
                /\ rs[i].start < rs[i].end
                /\ rs[i].end <= Len(input.stmt)
                /\ At(input.stmt, rs[i].start) = "{"
                /\ At(input.stmt, rs[i].end - 1) = "}"
           /\ \A i \in 1..(Len(rs) - 1) : rs[i].end <= rs[i + 1].start

\* C24: expandRecords replaces each bound span by its column list, left to
\* right, and leaves every character outside the spans unchanged, whatever
\* the lengths of the earlier substitutions.
FirstEntity(name, entities) ==
    entities[CHOOSE i \in 1..Len(entities) :
                /\ entities[i].name = name
                /\ \A j \in 1..(i - 1) : entities[j].name # name]

\* The column list of binding k, the text up to the next binding, and so on
\* to the end of stmt.
RECURSIVE Rebuilt(_, _, _, _)
Rebuilt(stmt, rs, k, entities) ==
    IF k > Len(rs) THEN << >>
    ELSE RecordList(rs[k], FirstEntity(rs[k].name, entities), entities)
           \o Slice(stmt, rs[k].end, IF k = Len(rs) THEN Len(stmt) ELSE rs[k + 1].start)
           \o Rebuilt(stmt, rs, k + 1, entities)

C24_ExpansionKeepsOutsideText ==
    (input.op = "compileStatement" /\ output # << >> /\ output[1].err = "") =>
        LET rs == output[1].fields
        IN output[1].stmt =
             Slice(input.stmt, 0, rs[1].start) \o Rebuilt(input.stmt, rs, 1, input.entities)

C24_Witness ==
    /\ input.op = "compileStatement"
    /\ output # << >>
    /\ output[1].err = ""
    /\ Len(output[1].fields) = 3
    /\ output[1].fields[1].prefix = << "t" >>
    /\ output[1].fields[2].prefix = << >>
    /\ output[1].fields[3].prefix = << "r" >>
    /\ Len(input.entities) = 2

\* C25 as stated: for every prefix of letters and underscores and every
\* field name, decoding the alias of (prefix, field) yields that pair.
C25_AliasDecodesToPair ==
    (input.op = "alias" /\ output # << >>) =>
        /\ ~output[1].panic
        /\ output[1].prefix = input.prefix
        /\ output[1].name = input.field

\* The separator of the alias is the first place where the separator text
\* occurs after the alias prefix.
SeparatorComesFirst(prefix, field) ==
    /\ IndexOf(prefix \o AliasSeparator, AliasSeparator) = Len(prefix)
    /\ IndexOf(field, AliasSeparator) = -1

\* C25 amended: when the separator text occurs neither in the prefix, nor
\* across the end of the prefix, nor in the field name, decoding the alias
\* of (prefix, field) yields that pair.
C25_AliasDecodesWithoutSeparator ==
    (input.op = "alias" /\ output # << >>
        /\ SeparatorComesFirst(input.prefix, input.field)) =>
        /\ ~output[1].panic
        /\ output[1].prefix = input.prefix
        /\ output[1].name = input.field

C25_Witness ==
    /\ input.op = "alias"
    /\ output # << >>
    /\ input.prefix = << "t", "_" >>
    /\ input.field = << "_", "s", "f", "x", "t" >>
    /\ output[1].prefix = input.prefix

\* C26: the statement cache is written only at the end of a successful
\* Query call whose expanded text differs from the raw text; a call that
\* fails at any step leaves the cache unchanged, and a statement without a
\* record macro adds no entry.
C26_CacheWrittenOnSuccessOnly ==
    [][/\ stmtCache' # stmtCache =>
            \E t \in Threads :
                /\ pc[t] = "scan" /\ pc'[t] = "done"
                /\ call'[t].err = ""
                /\ call[t].stmt # call[t].compiled
                /\ indexOfRecordArgs(call[t].stmt) >= 0
                /\ stmtCache' = (call[t].stmt :> [stmt |-> call[t].compiled,
                                                  fields |-> call[t].fields]) @@ stmtCache
       /\ \A t \in Threads :
            (pc[t] # "done" /\ pc'[t] = "done" /\ call'[t].err # "") =>
                stmtCache' = stmtCache
       /\ \A t \in Threads :
            (pc[t] # "done" /\ pc'[t] = "done" /\ indexOfRecordArgs(call'[t].stmt) < 0) =>
                stmtCache' = stmtCache]_vars

C26_Witness ==
    /\ DOMAIN stmtCache = {stP}
    /\ pc[Caller] = "done"
    /\ call[Caller].stmt = stP
    /\ call[Caller].err = "scan error"

\* C27: whenever a Query takes the expanded text and the bindings of a raw
\* statement from the statement cache, they equal what compileStatement
\* returns for that statement with the entities bound into that Query,
\* whichever Query of the Querier stored the entry.
C27_CacheHitEqualsFreshCompile ==
    \A t \in Threads :
        (pc[t] # "idle" /\ call[t].hit) =>
            \E fresh \in {compileStatement(call[t].stmt, planEntities(query[t]))} :
                /\ fresh.err = ""
                /\ call[t].compiled = fresh.stmt
                /\ call[t].fields = fresh.fields

\* C28: parseNames and parseRecords terminate on every text, entered at the
\* offset their locate function returned: every iteration of their outer
\* loops that is followed by another one starts at a later position than
\* the one before, the jump to the next sigil or brace included, and the
\* function returns in the end.
C28_ScansAdvanceAndTerminate ==
    /\ [][(~output[1].done /\ ~output'[1].done) => output'[1].i > output[1].i]_vars
    /\ <>(output[1].done)

C28_Witness ==
    /\ input.stmt = << ":", "a", " ", ":" >>
    /\ output[1].i = 3
    /\ ~output[1].done

\* C29: a Query built by ForMany only appends: the elements the destination
\* collection held before a Query call are still there after it, unchanged
\* and in the same positions, whether the call succeeds or fails part-way
\* through the rows; a successful call adds one element per row, so
\* successive calls accumulate.
C29_ForManyOnlyAppends ==
    [][/\ Len(slice') >= Len(slice)
       /\ SubSeq(slice', 1, Len(slice)) = slice
       /\ \A t \in Threads :
            (pc[t] = "scan" /\ pc'[t] = "done" /\ query[t].plan = "slice"
                /\ call'[t].err = "") =>
                Len(slice') = Len(slice) + call[t].nrows]_vars

C29_Witness ==
    /\ query[Caller].plan = "slice"
    /\ pc[Caller] = "done"
    /\ call[Caller].err = "scan error"
    /\ call[Caller].nrows = 1
    /\ Len(slice) = 1

\* Every manager registered with e was asked to start and returned nil.
AllStarted(e) ==
    \A k \in 1..Len(e.managers) :
        e.startUps[e.managers[k]] >= 1 /\ e.returned[e.managers[k]] = "nil"

StartedAndStoppedOnce ==
    \A m \in ManagerNames : engine.startUps[m] <= 1 /\ engine.stops[m] <= 1

====
